---- MODULE Spec2Model ----
(***************************************************************************)
(* Model of the reading-assistant browser extension: the content           *)
(* extraction and sanitisation engine of utils/dom-utils.js                *)
(* (ContentExtractor), run on a family of bounded document trees.          *)
(***************************************************************************)
EXTENDS Integers, Sequences, FiniteSets, TLC

VARIABLES live, last, prev, readingModeManager, page,
          tab, contentScript, storage, backgroundController, calls, finished,
          popup, history

\* The state of the extension around the page.
extVars ==
  <<tab, contentScript, storage, backgroundController, calls, finished, popup, history>>

vars == <<live, last, prev, readingModeManager, page, extVars>>

\* JavaScript null (node ids start at 1).
NULL == 0

-----------------------------------------------------------------------------
(* Strings, abstracted to what the code reads of them: String.length and    *)
(* String.trim().length.  A string is lead whitespace characters, then core *)
(* characters that start and end with a non-whitespace character, then      *)
(* trail whitespace characters; an all-whitespace string has core = 0 and   *)
(* trail = 0.                                                               *)

Str(lead, core, trail) == [lead |-> lead, core |-> core, trail |-> trail]

EmptyStr == Str(0, 0, 0)

\* s + t of JavaScript strings.
Concat(s, t) ==
  IF t.core = 0 THEN
    IF s.core = 0 THEN Str(s.lead + t.lead, 0, 0)
    ELSE Str(s.lead, s.core, s.trail + t.lead)
  ELSE
    IF s.core = 0 THEN Str(s.lead + t.lead, t.core, t.trail)
    ELSE Str(s.lead, s.core + s.trail + t.lead + t.core, t.trail)

\* s.length
Length(s) == s.lead + s.core + s.trail

\* s.trim()
Trim(s) == Str(0, s.core, 0)

-----------------------------------------------------------------------------
(* DOM trees.  A tree is a function from node ids to nodes; the ids of a     *)
(* tree are in document (pre-)order, a node's parent has a smaller id, the  *)
(* root has parent 0.  An attribute value is the sequence of its            *)
(* whitespace-separated tokens.                                             *)

NoAttrs == [a \in {} |-> <<>>]

Elem(p, tag, attrs) ==
  [parent |-> p, kind |-> "elem", tag |-> tag, attrs |-> attrs, text |-> EmptyStr]

Text(p, s) ==
  [parent |-> p, kind |-> "text", tag |-> "#text", attrs |-> NoAttrs, text |-> s]

Range(f) == {f[x] : x \in DOMAIN f}

RECURSIVE Order(_)
\* The ids of S in document order.
Order(S) ==
  IF S = {} THEN <<>>
  ELSE LET m == CHOOSE x \in S : \A y \in S : x <= y
       IN  <<m>> \o Order(S \ {m})

RECURSIVE IsInclusiveDescendant(_, _, _)
IsInclusiveDescendant(t, i, a) ==
  IF i = a THEN TRUE
  ELSE IF t[i].parent = 0 \/ t[i].parent \notin DOMAIN t THEN FALSE
  ELSE IsInclusiveDescendant(t, t[i].parent, a)

\* The nodes of the subtree of t rooted at e, e included.
Subtree(t, e) == {i \in DOMAIN t : IsInclusiveDescendant(t, i, e)}

Descendants(t, e) == Subtree(t, e) \ {e}

\* The tree rooted at e alone, without the other nodes of t.
TreeOf(t, e) == [i \in Subtree(t, e) |-> t[i]]

Elements(t) == {i \in DOMAIN t : t[i].kind = "elem"}

RECURSIVE ConcatAll(_, _)
ConcatAll(t, ids) ==
  IF ids = <<>> THEN EmptyStr
  ELSE Concat(t[Head(ids)].text, ConcatAll(t, Tail(ids)))

\* Node.textContent of an element: the concatenation of the text of its
\* text-node descendants in document order.
textContent(t, e) ==
  ConcatAll(t, Order({i \in Subtree(t, e) : t[i].kind = "text"}))

-----------------------------------------------------------------------------
(* Selectors.                                                               *)

TagSel(tag) == [kind |-> "tag", val |-> tag]
ClassSel(c) == [kind |-> "class", val |-> c]
IdSel(i) == [kind |-> "id", val |-> i]
RoleSel(r) == [kind |-> "role", val |-> r]
ClassSubSel(s) == [kind |-> "class*", val |-> s]
IdSubSel(s) == [kind |-> "id*", val |-> s]
TagsSel(tags) == [kind |-> "tags", val |-> tags]
AnySel == [kind |-> "*", val |-> ""]

\* The class and id tokens of the modelled documents that hold each
\* substring the attribute-substring selectors look for.
SubstringOf(pat, token) ==
  CASE pat = "ad-"    -> token \in {"ad-box", "ad-free", "read-more"}
    [] pat = "banner" -> token \in {"top-banner"}
    [] pat = "promo"  -> token \in {"promo-box"}
    [] OTHER          -> FALSE

HasAttr(n, name) == name \in DOMAIN n.attrs

\* Element.matches(selector) for the simple selectors the extension uses.
Matches(n, sel) ==
  /\ n.kind = "elem"
  /\ CASE sel.kind = "tag"    -> n.tag = sel.val
       [] sel.kind = "tags"   -> n.tag \in sel.val
       [] sel.kind = "class"  -> HasAttr(n, "class") /\ sel.val \in Range(n.attrs["class"])
       [] sel.kind = "id"     -> HasAttr(n, "id") /\ n.attrs["id"] = <<sel.val>>
       [] sel.kind = "role"   -> HasAttr(n, "role") /\ n.attrs["role"] = <<sel.val>>
       [] sel.kind = "class*" -> HasAttr(n, "class") /\
                                 \E k \in Range(n.attrs["class"]) : SubstringOf(sel.val, k)
       [] sel.kind = "id*"    -> HasAttr(n, "id") /\
                                 \E k \in Range(n.attrs["id"]) : SubstringOf(sel.val, k)
       [] sel.kind = "*"      -> TRUE

\* document.querySelectorAll(sel): the matching elements in document order.
documentQuerySelectorAll(t, sel) ==
  Order({i \in Elements(t) : Matches(t[i], sel)})

\* document.querySelector(sel): the first matching element, or null.
documentQuerySelector(t, sel) ==
  LET all == documentQuerySelectorAll(t, sel)
  IN  IF all = <<>> THEN NULL ELSE Head(all)

\* element.querySelectorAll(sel): the matching descendants of e (e itself
\* is never among them) in document order.
querySelectorAll(t, e, sel) ==
  Order({i \in Descendants(t, e) : Matches(t[i], sel)})

-----------------------------------------------------------------------------
(* ContentExtractor: configuration.                                         *)

contentSelectors ==
  << TagSel("article"), RoleSel("main"), ClassSel("post-content"),
     ClassSel("entry-content"), ClassSel("article-content"), ClassSel("content"),
     ClassSel("main-content"), IdSel("content"), ClassSel("post-body"),
     ClassSel("article-body") >>

noiseSelectors ==
  << TagSel("header"), TagSel("nav"), TagSel("aside"), TagSel("footer"),
     ClassSel("advertisement"), ClassSel("ads"), ClassSel("sidebar"),
     ClassSel("social-share"), ClassSel("comments"), ClassSel("related-posts"),
     ClassSel("popup"), ClassSel("modal"), ClassSel("overlay"),
     ClassSubSel("ad-"), IdSubSel("ad-"),
     ClassSubSel("banner"), ClassSubSel("promo"),
     ClassSel("cookie-notice"), ClassSel("newsletter"),
     ClassSel("share-buttons"), ClassSel("social-buttons") >>

textDensityThreshold == 25

minTextLength == 100

-----------------------------------------------------------------------------
(* JavaScript numbers where the code divides: a quotient of two integers is *)
(* kept as the fraction num / den with den > 0.                             *)

Rat(n, d) == [num |-> n, den |-> d]

\* a > b
RatGt(a, b) == a.num * b.den > b.num * a.den

\* a > k for an integer k
RatGtInt(a, k) == a.num > k * a.den

-----------------------------------------------------------------------------
(* ContentExtractor: the locator.                                           *)

RECURSIVE SumLinkLength(_, _)
\* Array.from(links).reduce((sum, link) => sum + link.textContent.length, 0)
SumLinkLength(t, links) ==
  IF links = <<>> THEN 0
  ELSE Length(textContent(t, Head(links))) + SumLinkLength(t, Tail(links))

\* Mutant: linkRatio >= 0.5 rejects.
isValidContent_ratioGe(t, element) ==
  IF element = NULL THEN FALSE
  ELSE
    LET text == Trim(textContent(t, element))
    IN  IF Length(text) < minTextLength THEN FALSE
        ELSE 2 * SumLinkLength(t, querySelectorAll(t, element, TagSel("a"))) < Length(text)

isValidContent(t, element) ==
  IF element = NULL THEN FALSE
  ELSE
    LET text == Trim(textContent(t, element))
    IN  IF Length(text) < minTextLength THEN FALSE
        ELSE
          LET links == querySelectorAll(t, element, TagSel("a"))
              linkTextLength == SumLinkLength(t, links)
          IN  \* linkRatio = linkTextLength / text.length; linkRatio > 0.5
              IF 2 * linkTextLength > Length(text) THEN FALSE
              ELSE TRUE

\* Mutant: the link text is not subtracted.
calculateTextDensity_withLinks(t, element) ==
  LET textLength == Length(Trim(textContent(t, element)))
      tagCount == Len(querySelectorAll(t, element, AnySel))
  IN  IF tagCount > 0 THEN Rat(textLength, tagCount) ELSE Rat(0, 1)

\* Mutant: the denominator floored to 1 instead of the score forced to 0.
calculateTextDensity_floorOne(t, element) ==
  LET textLength == Length(Trim(textContent(t, element)))
      linkLength == SumLinkLength(t, querySelectorAll(t, element, TagSel("a")))
      textDensity == textLength - linkLength
      tagCount == Len(querySelectorAll(t, element, AnySel))
  IN  IF tagCount > 0 THEN Rat(textDensity, tagCount) ELSE Rat(textDensity, 1)

calculateTextDensity(t, element) ==
  LET textLength == Length(Trim(textContent(t, element)))
      linkLength == SumLinkLength(t, querySelectorAll(t, element, TagSel("a")))
      textDensity == textLength - linkLength
      tagCount == Len(querySelectorAll(t, element, AnySel))
  IN  IF tagCount > 0 THEN Rat(textDensity, tagCount) ELSE Rat(0, 1)

RECURSIVE SelectorLoop(_, _)
\* The for-of loop of findContentBySelectors over the selectors left.
SelectorLoop(t, selectors) ==
  IF selectors = <<>> THEN NULL
  ELSE
    LET element == documentQuerySelector(t, Head(selectors))
    IN  IF element # NULL /\ isValidContent(t, element) THEN element
        ELSE SelectorLoop(t, Tail(selectors))

RECURSIVE SelectorLoopUnfiltered(_, _)
SelectorLoopUnfiltered(t, selectors) ==
  IF selectors = <<>> THEN NULL
  ELSE
    LET element == documentQuerySelector(t, Head(selectors))
    IN  IF element # NULL THEN element
        ELSE SelectorLoopUnfiltered(t, Tail(selectors))

\* Mutant: the selector loop without the validity check.
findContentBySelectors_unfiltered(t) == SelectorLoopUnfiltered(t, contentSelectors)

findContentBySelectors(t) == SelectorLoop(t, contentSelectors)

RECURSIVE DensityLoop(_, _, _, _)
\* The forEach of findContentByTextDensity over the candidates left.
DensityLoop(t, candidates, bestCandidate, bestScore) ==
  IF candidates = <<>> THEN bestCandidate
  ELSE
    LET element == Head(candidates)
        score == calculateTextDensity(t, element)
    IN  IF RatGt(score, bestScore) /\ RatGtInt(score, textDensityThreshold)
        THEN DensityLoop(t, Tail(candidates), element, score)
        ELSE DensityLoop(t, Tail(candidates), bestCandidate, bestScore)

RECURSIVE DensityLoopFirst(_, _)
DensityLoopFirst(t, candidates) ==
  IF candidates = <<>> THEN NULL
  ELSE IF RatGtInt(calculateTextDensity(t, Head(candidates)), textDensityThreshold)
       THEN Head(candidates)
       ELSE DensityLoopFirst(t, Tail(candidates))

\* Mutant: the first candidate above the threshold instead of the best.
findContentByTextDensity_firstAbove(t) ==
  DensityLoopFirst(t, documentQuerySelectorAll(t, TagsSel({"div", "section", "main"})))

RECURSIVE DensityLoopLast(_, _, _, _)
DensityLoopLast(t, candidates, bestCandidate, bestScore) ==
  IF candidates = <<>> THEN bestCandidate
  ELSE
    LET element == Head(candidates)
        score == calculateTextDensity(t, element)
    IN  IF ~RatGt(bestScore, score) /\ RatGtInt(score, textDensityThreshold)
        THEN DensityLoopLast(t, Tail(candidates), element, score)
        ELSE DensityLoopLast(t, Tail(candidates), bestCandidate, bestScore)

\* Mutant: score >= bestScore, so that a later equal score replaces the best.
findContentByTextDensity_lastTie(t) ==
  DensityLoopLast(t, documentQuerySelectorAll(t, TagsSel({"div", "section", "main"})),
                  NULL, Rat(0, 1))

findContentByTextDensity(t) ==
  DensityLoop(t, documentQuerySelectorAll(t, TagsSel({"div", "section", "main"})),
              NULL, Rat(0, 1))

RECURSIVE LargestLoop(_, _, _, _)
\* The forEach of findLargestTextBlock over the elements left.
LargestLoop(t, allElements, largestElement, maxTextLength) ==
  IF allElements = <<>> THEN largestElement
  ELSE
    LET element == Head(allElements)
        textLength == Length(Trim(textContent(t, element)))
    IN  IF textLength > maxTextLength /\ isValidContent(t, element)
        THEN LargestLoop(t, Tail(allElements), element, textLength)
        ELSE LargestLoop(t, Tail(allElements), largestElement, maxTextLength)

RECURSIVE LargestLoopLast(_, _, _, _)
LargestLoopLast(t, allElements, largestElement, maxTextLength) ==
  IF allElements = <<>> THEN largestElement
  ELSE
    LET element == Head(allElements)
        textLength == Length(Trim(textContent(t, element)))
    IN  IF textLength >= maxTextLength /\ isValidContent(t, element)
        THEN LargestLoopLast(t, Tail(allElements), element, textLength)
        ELSE LargestLoopLast(t, Tail(allElements), largestElement, maxTextLength)

\* Mutant: >= in place of >, so that the last of several ties wins.
findLargestTextBlock_lastTie(t) ==
  LargestLoopLast(t, documentQuerySelectorAll(t, AnySel), NULL, 0)

\* Mutant: the root element in place of null when no element is valid.
findLargestTextBlock_rootFallback(t) ==
  LET r == LargestLoop(t, documentQuerySelectorAll(t, AnySel), NULL, 0)
  IN  IF r = NULL THEN 1 ELSE r

findLargestTextBlock(t) ==
  LargestLoop(t, documentQuerySelectorAll(t, AnySel), NULL, 0)

\* extractMainContent, with the stages it evaluated: [content, evaluated].
extractMainContent(t) ==
  LET s1 == findContentBySelectors(t)
  IN  IF s1 # NULL
      THEN [content |-> s1, evaluated |-> <<"findContentBySelectors">>]
      ELSE
        LET s2 == findContentByTextDensity(t)
        IN  IF s2 # NULL
            THEN [content |-> s2,
                  evaluated |-> <<"findContentBySelectors", "findContentByTextDensity">>]
            ELSE [content |-> findLargestTextBlock(t),
                  evaluated |-> <<"findContentBySelectors", "findContentByTextDensity",
                                  "findLargestTextBlock">>]

-----------------------------------------------------------------------------
(* ContentExtractor: the sanitizer.  The nodes cleanContent works on live   *)
(* in a heap [live, copy]: live holds the nodes of the document, copy the   *)
(* nodes that cloneNode allocates.  A node that is detached stays in its    *)
(* cell as the root of a tree of its own.                                   *)

NoTree == [i \in {} |-> 0]

NullRef == [tree |-> "null", id |-> NULL]

allowedAttributes == {"src", "alt", "href", "title"}

\* img.alt = '...' of optimizeImages
altPlaceholder == <<"picture">>

SetAttr(n, name, val) ==
  [n EXCEPT !.attrs = [a \in (DOMAIN @) \cup {name} |-> IF a = name THEN val ELSE @[a]]]

RemoveAttr(n, name) ==
  [n EXCEPT !.attrs = [a \in (DOMAIN @) \ {name} |-> @[a]]]

\* Mutant: no copy is taken, the sanitizer works on the document's nodes.
cloneNode_alias(heap, content) == [heap |-> heap, ref |-> "live"]

\* content.cloneNode(true): a deep copy of the subtree of the document rooted
\* at content, detached (no parent), in the heap's copy cell.
cloneNode(heap, content) ==
  [heap |-> [heap EXCEPT !.copy =
               [i \in Subtree(heap.live, content) |->
                  IF i = content THEN [heap.live[i] EXCEPT !.parent = 0]
                  ELSE heap.live[i]]],
   ref |-> "copy"]

\* el.remove(): detaches el from its parent; el keeps its own subtree and
\* becomes the root of a tree of its own.  Nothing happens when el has no
\* parent.
Remove(t, el) ==
  IF t[el].parent # 0 THEN [t EXCEPT ![el].parent = 0] ELSE t

RECURSIVE RemoveEach(_, _)
\* elements.forEach(el => el.remove())
RemoveEach(t, elements) ==
  IF elements = <<>> THEN t
  ELSE RemoveEach(Remove(t, Head(elements)), Tail(elements))

\* Mutant: only the matching children of the root are removed.
RemoveNoise_childrenOnly(t, cleanedContent, selector) ==
  RemoveEach(t, SelectSeq(querySelectorAll(t, cleanedContent, selector),
                          LAMBDA el : t[el].parent = cleanedContent))

\* Mutant: querySelector in place of querySelectorAll, only the first match
\* of the selector is removed.
RemoveNoise_firstMatch(t, cleanedContent, selector) ==
  LET elements == querySelectorAll(t, cleanedContent, selector)
  IN  IF elements = <<>> THEN t ELSE Remove(t, Head(elements))

\* The body of the forEach over noiseSelectors for one selector: the
\* matches are collected first, then removed one by one.
RemoveNoise(t, cleanedContent, selector) ==
  RemoveEach(t, querySelectorAll(t, cleanedContent, selector))

RECURSIVE NoiseLoop(_, _, _)
\* this.noiseSelectors.forEach(selector => ...) over the selectors left
\* (t1 is the tree after the first of them).
NoiseLoop(t, cleanedContent, selectors) ==
  IF selectors = <<>> THEN t
  ELSE CHOOSE r \in { NoiseLoop(t1, cleanedContent, Tail(selectors)) :
                        t1 \in {RemoveNoise(t, cleanedContent, Head(selectors))} } : TRUE

\* The nodes walker.nextNode() returns for a TreeWalker of SHOW_ELEMENT
\* rooted at element: the walker starts ON its root, so the first
\* nextNode() is the root's first element descendant and the root itself is
\* never returned.
TreeWalkerNodes(t, element) ==
  Order({i \in Descendants(t, element) : t[i].kind = "elem"})

\* attributes.forEach(attr => { if (!allowed.includes(attr.name)) el.removeAttribute })
StripAttributes(n) ==
  [n EXCEPT !.attrs = [a \in (DOMAIN @) \cap allowedAttributes |-> @[a]]]

RECURSIVE StripEach(_, _)
StripEach(t, elements) ==
  IF elements = <<>> THEN t
  ELSE StripEach([t EXCEPT ![Head(elements)] = StripAttributes(@)], Tail(elements))

cleanAttributes(t, element) == StripEach(t, TreeWalkerNodes(t, element))

\* The getter HTMLImageElement.loading that optimizeImages reads: it
\* reflects the loading content attribute limited to its known values, and
\* an absent or unknown value reads as the default "eager" (never as an
\* empty string) in the browsers that run the extension (Manifest V3).
imgLoading(n) ==
  IF HasAttr(n, "loading") /\ n.attrs["loading"] = <<"lazy">> THEN "lazy" ELSE "eager"

\* The getter HTMLImageElement.alt: the alt attribute, "" when absent.
imgAlt(n) == IF HasAttr(n, "alt") THEN n.attrs["alt"] ELSE <<>>

\* The body of the forEach of optimizeImages for one img.
OptimizeImage(img) ==
  LET i1 == IF imgLoading(img) = "" THEN SetAttr(img, "loading", <<"lazy">>) ELSE img
      i2 == IF imgAlt(i1) = <<>> THEN SetAttr(i1, "alt", altPlaceholder) ELSE i1
  IN  RemoveAttr(i2, "style")

RECURSIVE OptimizeEach(_, _)
OptimizeEach(t, images) ==
  IF images = <<>> THEN t
  ELSE OptimizeEach([t EXCEPT ![Head(images)] = OptimizeImage(@)], Tail(images))

optimizeImages(t, element) ==
  OptimizeEach(t, querySelectorAll(t, element, TagSel("img")))

\* Mutant: an empty new element in place of null for a null candidate.
cleanContent_placeholder(heap, content) ==
  IF content = NULL
  THEN [heap |-> [heap EXCEPT !.copy = <<Elem(0, "div", NoAttrs)>>],
        ret |-> [tree |-> "copy", id |-> 1]]
  ELSE
    LET c  == cloneNode(heap, content)
        h1 == [c.heap EXCEPT ![c.ref] = NoiseLoop(@, content, noiseSelectors)]
        h2 == [h1 EXCEPT ![c.ref] = cleanAttributes(@, content)]
        h3 == [h2 EXCEPT ![c.ref] = optimizeImages(@, content)]
    IN  [heap |-> h3, ret |-> [tree |-> c.ref, id |-> content]]

\* cleanContent(content): [heap, ret], ret the returned node as [tree, id].
cleanContent(heap, content) ==
  IF content = NULL THEN [heap |-> heap, ret |-> NullRef]
  ELSE
    LET c  == cloneNode(heap, content)
        h1 == [c.heap EXCEPT ![c.ref] = NoiseLoop(@, content, noiseSelectors)]
        h2 == [h1 EXCEPT ![c.ref] = cleanAttributes(@, content)]
        h3 == [h2 EXCEPT ![c.ref] = optimizeImages(@, content)]
    IN  [heap |-> h3, ret |-> [tree |-> c.ref, id |-> content]]

-----------------------------------------------------------------------------
(* ReadingModeManager.  What the manager adds to the page is kept apart     *)
(* from the nodes of the page: the reading container appended to body, the  *)
(* (with the number of such containers in body), the body children         *)
(* carrying 'reading-assistant-hidden', the inline overflow                 *)
(* and background of body, the classes the manager puts on the root         *)
(* element, and the last event dispatched on the document.                  *)

\* document.body, or null
documentBody(t) ==
  LET B == {i \in Elements(t) : t[i].tag = "body"}
  IN  IF B = {} THEN NULL ELSE CHOOSE i \in B : \A j \in B : i <= j

\* Array.from(document.body.children)
bodyChildren(t) == Order({i \in Elements(t) : t[i].parent = documentBody(t)})

\* The page as loaded, body carrying the inline styles overflow and
\* background given ("" for none).
LoadedPage(overflow, background) ==
  [container |-> NoTree, containers |-> 0, hidden |-> {},
   bodyStyle |-> [overflow |-> overflow, background |-> background],
   rootClasses |-> {}, event |-> "none"]

\* this.originalBodyStyle when it holds no object (undefined or null).
NoBodyStyle == [saved |-> FALSE, overflow |-> "", background |-> ""]

\* new ReadingModeManager(); originalBodyStyle is not set by the constructor.
\* F of the value of v: v is evaluated once, before F is applied to it, as
\* a statement is executed before the one that follows it.
Bind(v, F(_)) == CHOOSE y \in {F(x) : x \in {v}} : TRUE

NewManager ==
  [isActive |-> FALSE, originalContent |-> "null", readingContainer |-> "null",
   originalBodyStyle |-> NoBodyStyle]

\* this.dispatchEvent(eventName)
dispatchEvent(pg, eventName) == [pg EXCEPT !.event = "reading-assistant-" \o eventName]

\* createReadingContainer(content): the container holds the wrapper that
\* holds content, and is appended to body.
createReadingContainer(m, pg, content) ==
  [manager |-> [m EXCEPT !.readingContainer = "reading-assistant-container"],
   page |-> [pg EXCEPT !.container = content, !.containers = @ + 1]]

\* hideOriginalContent(): every child of body but the container gets the
\* hidden class.
hideOriginalContent(m, pg, t) ==
  [manager |-> [m EXCEPT !.originalBodyStyle =
                            [saved |-> TRUE, overflow |-> pg.bodyStyle.overflow,
                             background |-> pg.bodyStyle.background]],
   page |-> [pg EXCEPT !.hidden = @ \cup Range(bodyChildren(t)),
                       !.bodyStyle = [overflow |-> "auto", background |-> "#ffffff"]]]

\* showOriginalContent()
showOriginalContent(m, pg) ==
  LET pg1 == [pg EXCEPT !.hidden = {}]
  IN  IF m.originalBodyStyle.saved
      THEN [manager |-> [m EXCEPT !.originalBodyStyle = NoBodyStyle],
            \* body.style.x = originalBodyStyle.x || ''
            page |-> [pg1 EXCEPT !.bodyStyle =
                                   [overflow |-> m.originalBodyStyle.overflow,
                                    background |-> m.originalBodyStyle.background]]]
      ELSE [manager |-> m, page |-> pg1]

\* Mutant: the page is hidden before the content is looked for.
activate_hideFirst(m, pg, t) ==
  IF m.isActive THEN [manager |-> m, page |-> pg]
  ELSE IF documentBody(t) = NULL
  THEN [manager |-> m, page |-> dispatchEvent(pg, "reading-mode-error")]
  ELSE
    LET m1 == [m EXCEPT !.originalContent = "body.cloneNode(true)"]
        h  == hideOriginalContent(m1, pg, t)
        mainContent == extractMainContent(t).content
    IN  IF mainContent = NULL
        THEN [manager |-> h.manager, page |-> dispatchEvent(h.page, "reading-mode-error")]
        ELSE
          LET cleaned == cleanContent([live |-> t, copy |-> NoTree], mainContent)
              c == createReadingContainer(h.manager, h.page,
                     TreeOf(cleaned.heap[cleaned.ret.tree], cleaned.ret.id))
          IN  [manager |-> [c.manager EXCEPT !.isActive = TRUE],
               page |-> dispatchEvent(
                          [c.page EXCEPT !.rootClasses = @ \cup {"reading-assistant-active"}],
                          "reading-mode-activated")]

\* Mutant: activate without the early return for an active manager.
activate_noGuard(m, pg, t) ==
  IF documentBody(t) = NULL
  THEN [manager |-> m, page |-> dispatchEvent(pg, "reading-mode-error")]
  ELSE
    LET m1 == [m EXCEPT !.originalContent = "body.cloneNode(true)"]
        mainContent == extractMainContent(t).content
    IN  IF mainContent = NULL
        THEN [manager |-> m1, page |-> dispatchEvent(pg, "reading-mode-error")]
        ELSE
          LET cleaned == cleanContent([live |-> t, copy |-> NoTree], mainContent)
              c == createReadingContainer(m1, pg,
                     TreeOf(cleaned.heap[cleaned.ret.tree], cleaned.ret.id))
              h == hideOriginalContent(c.manager, c.page, t)
          IN  [manager |-> [h.manager EXCEPT !.isActive = TRUE],
               page |-> dispatchEvent(
                          [h.page EXCEPT !.rootClasses = @ \cup {"reading-assistant-active"}],
                          "reading-mode-activated")]

\* activate(): [manager, page] after the call.  Reading body of a document
\* without one, and the throw for a null mainContent, end in the catch
\* clause, which dispatches the error event.
activate(m, pg, t) ==
  IF m.isActive THEN [manager |-> m, page |-> pg]
  ELSE IF documentBody(t) = NULL
  THEN [manager |-> m, page |-> dispatchEvent(pg, "reading-mode-error")]
  ELSE
    LET m1 == [m EXCEPT !.originalContent = "body.cloneNode(true)"]
        \* from this.isActive = true on, h being what hideOriginalContent left
        activated(h) ==
          [manager |-> [h.manager EXCEPT !.isActive = TRUE],
           page |-> dispatchEvent(
                      [h.page EXCEPT !.rootClasses = @ \cup {"reading-assistant-active"}],
                      "reading-mode-activated")]
        \* from hideOriginalContent() on, c being what createReadingContainer left
        contained(c) == Bind(hideOriginalContent(c.manager, c.page, t), activated)
        \* from createReadingContainer(cleanedContent) on
        cleaned(cleanedContent) ==
          Bind(createReadingContainer(m1, pg,
                 TreeOf(cleanedContent.heap[cleanedContent.ret.tree],
                        cleanedContent.ret.id)),
               contained)
        \* from the test of mainContent on
        extracted(mainContent) ==
          IF mainContent = NULL
          THEN [manager |-> m1, page |-> dispatchEvent(pg, "reading-mode-error")]
          ELSE Bind(cleanContent([live |-> t, copy |-> NoTree], mainContent), cleaned)
    IN  Bind(extractMainContent(t).content, extracted)

\* deactivate()
deactivate(m, pg) ==
  IF ~m.isActive THEN [manager |-> m, page |-> pg]
  ELSE
    LET removed == m.readingContainer # "null"
        m1  == IF removed THEN [m EXCEPT !.readingContainer = "null"] ELSE m
        pg1 == IF removed THEN [pg EXCEPT !.container = NoTree, !.containers = @ - 1]
               ELSE pg
        s   == showOriginalContent(m1, pg1)
    IN  [manager |-> [s.manager EXCEPT !.isActive = FALSE],
         page |-> dispatchEvent(
                    [s.page EXCEPT !.rootClasses = @ \ {"reading-assistant-active"}],
                    "reading-mode-deactivated")]

\* toggle()
toggle(m, pg, t) == IF m.isActive THEN deactivate(m, pg) ELSE activate(m, pg, t)

\* applyTheme(theme)
applyTheme(pg, theme) ==
  LET themes == {"reading-assistant-light", "reading-assistant-dark",
                 "reading-assistant-sepia"}
      cleared == pg.rootClasses \ themes
  IN  dispatchEvent(
        [pg EXCEPT !.rootClasses =
           IF theme # "" /\ theme # "light"
           THEN cleared \cup {"reading-assistant-" \o theme} ELSE cleared],
        "theme-changed")

\* setFontSize(size)
setFontSize(pg, size) ==
  LET sizes == {"reading-assistant-font-small", "reading-assistant-font-medium",
                "reading-assistant-font-large", "reading-assistant-font-xlarge"}
  IN  dispatchEvent(
        [pg EXCEPT !.rootClasses = (@ \ sizes) \cup {"reading-assistant-font-" \o size}],
        "font-size-changed")

\* setLineSpacing(spacing)
setLineSpacing(pg, spacing) ==
  LET spacings == {"reading-assistant-line-compact", "reading-assistant-line-normal",
                   "reading-assistant-line-loose"}
  IN  dispatchEvent(
        [pg EXCEPT !.rootClasses =
           (@ \ spacings) \cup {"reading-assistant-line-" \o spacing}],
        "line-spacing-changed")

-----------------------------------------------------------------------------
(* The documents the extension is run on: a page skeleton                   *)
(* html > (head > title)?, body, with up to MaxBlocks of the blocks below   *)
(* as children of body; and the worked examples of the specification.       *)

MaxBlocks == 2

\* A block is a subtree in document order; parent 0 stands for body, a
\* parent k > 0 for the k-th node of the block.
Blocks ==
  << \* 1: a valid article, text with surrounding whitespace
     << Elem(0, "article", NoAttrs), Text(1, Str(1, 130, 1)) >>,
     \* 2: an article below the minimum length
     << Elem(0, "article", [class |-> <<"teaser">>]), Text(1, Str(0, 99, 0)) >>,
     \* 3: .content whose own class matches a noise selector, with an image
     \*    carrying {src, onclick, style, class, alt}
     << Elem(0, "div", [class |-> <<"content", "ad-free">>, onclick |-> <<"track()">>]),
        Elem(1, "p", [style |-> <<"color:red">>]), Text(2, Str(0, 200, 0)),
        Elem(1, "img", [src |-> <<"a.png">>, onclick |-> <<"zoom()">>,
                        style |-> <<"width:9px">>, class |-> <<"photo">>,
                        alt |-> <<"chart">>]),
        Elem(1, "footer", NoAttrs), Text(5, Str(0, 10, 0)) >>,
     \* 4: a plain div of density 130
     << Elem(0, "div", [id |-> <<"story">>]), Elem(1, "p", NoAttrs),
        Text(2, Str(0, 130, 0)) >>,
     \* 5: a div with text and no descendant element
     << Elem(0, "div", NoAttrs), Text(1, Str(0, 130, 0)) >>,
     \* 6: .content with 500 characters of which 260 in a link
     << Elem(0, "div", [class |-> <<"content">>]), Text(1, Str(0, 240, 0)),
        Elem(1, "a", [href |-> <<"/more">>]), Text(3, Str(0, 260, 0)) >>,
     \* 7: .post-body with link ratio exactly 0.5
     << Elem(0, "section", [class |-> <<"post-body">>]), Text(1, Str(0, 100, 0)),
        Elem(1, "a", [href |-> <<"/next">>]), Text(3, Str(0, 100, 0)) >>,
     \* 8: [role=main] with nested noise (one noise element inside another)
     \*    and images
     << Elem(0, "main", [role |-> <<"main">>, class |-> <<"page">>]),
        Text(1, Str(0, 150, 1)),
        Elem(1, "div", NoAttrs), Elem(3, "div", [class |-> <<"wrap">>]),
        Elem(4, "nav", NoAttrs),
        Elem(5, "a", [href |-> <<"/home">>, class |-> <<"ad-free">>]),
        Text(6, Str(0, 20, 0)),
        Elem(4, "span", [class |-> <<"ad-box">>]), Text(8, Str(0, 10, 0)),
        Elem(1, "aside", NoAttrs), Text(10, Str(0, 30, 0)),
        Elem(1, "img", [src |-> <<"b.png">>]),
        Elem(1, "img", [src |-> <<"c.png">>, alt |-> <<"pic">>,
                        loading |-> <<"lazy">>, style |-> <<"float:left">>]) >>,
     \* 9: a dense div below the minimum length
     << Elem(0, "div", NoAttrs), Elem(1, "p", NoAttrs), Text(2, Str(0, 50, 0)) >>,
     \* 10: a div that is one long link, its text with surrounding whitespace
     << Elem(0, "div", NoAttrs), Elem(1, "a", [href |-> <<"/all">>]),
        Text(2, Str(3, 400, 3)) >>,
     \* 11: a div of density exactly 25
     << Elem(0, "div", NoAttrs), Elem(1, "p", NoAttrs), Elem(1, "p", NoAttrs),
        Elem(1, "p", NoAttrs), Elem(1, "p", NoAttrs), Text(5, Str(0, 100, 0)) >> >>

Skeleton(hasTitle) ==
  << Elem(0, "html", [lang |-> <<"en">>]), Elem(1, "head", NoAttrs) >>
  \o (IF hasTitle THEN << Elem(2, "title", NoAttrs), Text(3, Str(0, 10, 0)) >> ELSE <<>>)
  \o << Elem(1, "body", [class |-> <<"home">>]) >>

Shift(block, off, body) ==
  [i \in 1..Len(block) |->
     [block[i] EXCEPT !.parent = IF @ = 0 THEN body ELSE @ + off]]

RECURSIVE Attach(_, _, _)
Attach(doc, body, blocks) ==
  IF blocks = <<>> THEN doc
  ELSE Attach(doc \o Shift(Head(blocks), Len(doc), body), body, Tail(blocks))

BuildDoc(hasTitle, blocks) ==
  LET sk == Skeleton(hasTitle) IN Attach(sk, Len(sk), blocks)

\* The density example of the specification: 1000 characters of text, 200
\* of them in a link, 40 descendant elements.
DensityExample ==
  BuildDoc(TRUE,
    << << Elem(0, "div", NoAttrs), Text(1, Str(0, 800, 0)),
          Elem(1, "a", [href |-> <<"/ref">>]), Text(3, Str(0, 200, 0)) >>
       \o [i \in 1..39 |-> Elem(1, "span", NoAttrs)] >>)

\* The document without any node (its root element has been removed).
EmptyDoc == <<>>

Docs ==
  { BuildDoc(h, [i \in DOMAIN bs |-> Blocks[bs[i]]]) :
      h \in BOOLEAN,
      bs \in UNION { [1..k -> 1..Len(Blocks)] : k \in 0..MaxBlocks } }
  \cup {DensityExample, EmptyDoc}

-----------------------------------------------------------------------------
(* The extension around the page: the settings of chrome.storage.sync, the  *)
(* URL of the tab, the scripts of the page (utils/dom-utils.js and          *)
(* content.js, in the isolated world of the tab) and the map of the         *)
(* background service worker.                                               *)

\* defaultSettings of the background; the popup and the content script pass
\* the same defaults to chrome.storage.sync.get.
defaultSettings ==
  [theme |-> "light", fontSize |-> "medium", lineSpacing |-> "normal",
   autoActivate |-> FALSE, showProgress |-> TRUE, enableShortcuts |-> TRUE]

\* A URL, as far as isValidUrl and the browser read it.
Url(protocol, hostname) == [protocol |-> protocol, hostname |-> hostname]

NoUrl == Url("", "")

WebUrl == Url("https:", "example.com")

BrowserUrl == Url("chrome:", "settings")

StoreUrl == Url("https:", "addons.mozilla.org")

Urls == {WebUrl, BrowserUrl, StoreUrl}

\* isValidUrl(url); every URL of Urls is parsed by new URL(url), and a host
\* name of Urls includes a domain only when it is that domain.
isValidUrl(url) ==
  LET invalidProtocols == {"chrome:", "chrome-extension:", "moz-extension:",
                           "edge:", "about:"}
      invalidDomains == {"chrome.google.com", "addons.mozilla.org",
                         "microsoftedge.microsoft.com"}
  IN  IF url = NoUrl THEN FALSE
      ELSE IF url.protocol \in invalidProtocols THEN FALSE
      ELSE IF \E domain \in invalidDomains : url.hostname = domain THEN FALSE
      ELSE TRUE

\* Whether chrome.scripting.executeScript and insertCSS resolve for a tab of
\* this URL: the browser runs scripts in web pages and in no page of its own.
canInject(url) == url.protocol \in {"http:", "https:"}

\* Counting up to "more than once": 0 never, 1 once, 2 more than once.
Again(n) == IF n = 0 THEN 1 ELSE 2

\* The scripts of a freshly loaded page: how often each file was evaluated
\* and each object constructed since the load (never, once, more than
\* once), the injection flag, the controller (undefined, constructed with
\* setup() pending, listening to messages and events, or deaf after a
\* setup() that failed) and its fields.
FreshContent ==
  [domUtils |-> 0, contentJs |-> 0, managers |-> 0, controllers |-> 0,
   readingAssistantInjected |-> FALSE, readingAssistantController |-> "undefined",
   settings |-> defaultSettings, toolbarVisible |-> FALSE, isInitialized |-> FALSE]

\* Evaluation of utils/dom-utils.js in the page.  The first evaluation
\* declares the classes and constructs window.readingModeManager; a later
\* one ends in the SyntaxError of redeclaring class ContentExtractor before
\* any statement runs.
evalDomUtils(c, m) ==
  IF c.domUtils = 0
  THEN [content |-> [c EXCEPT !.domUtils = Again(@), !.managers = Again(@)],
        manager |-> NewManager, threw |-> FALSE]
  ELSE [content |-> [c EXCEPT !.domUtils = Again(@)], manager |-> m, threw |-> TRUE]

\* Evaluation of content.js in the top frame of the page: the guard, then
\* the construction of the controller, whose init() starts setup().
evalContentJs(c) ==
  IF c.readingAssistantInjected THEN [c EXCEPT !.contentJs = Again(@)]
  ELSE IF c.readingAssistantController = "undefined"
  THEN [c EXCEPT !.contentJs = Again(@), !.readingAssistantInjected = TRUE,
                 !.controllers = Again(@),
                 !.readingAssistantController = "constructed"]
  ELSE [c EXCEPT !.contentJs = Again(@), !.readingAssistantInjected = TRUE]

\* The progress bar and the toolbar that setup() appends to body; the
\* toolbar's innerHTML is five buttons of one emoji (two code units) each,
\* with a line break and indentation around them.
progressBar ==
  << Elem(0, "div", [class |-> <<"reading-assistant-progress">>,
                     id |-> <<"reading-assistant-progress">>]) >>

toolbar ==
  << Elem(0, "div", [class |-> <<"reading-assistant-toolbar">>,
                     id |-> <<"reading-assistant-toolbar">>]),
     Text(1, Str(9, 0, 0)),
     Elem(1, "button", [id |-> <<"ra-toggle">>]), Text(3, Str(0, 2, 0)),
     Text(1, Str(9, 0, 0)),
     Elem(1, "button", [id |-> <<"ra-theme">>]), Text(6, Str(0, 2, 0)),
     Text(1, Str(9, 0, 0)),
     Elem(1, "button", [id |-> <<"ra-font-size">>]), Text(9, Str(0, 2, 0)),
     Text(1, Str(9, 0, 0)),
     Elem(1, "button", [id |-> <<"ra-line-spacing">>]), Text(12, Str(0, 2, 0)),
     Text(1, Str(9, 0, 0)),
     Elem(1, "button", [id |-> <<"ra-settings">>]), Text(15, Str(0, 2, 0)),
     Text(1, Str(7, 0, 0)) >>

\* applyCurrentSettings()
applyCurrentSettings(c, pg) ==
  IF c.managers = 0 THEN pg
  ELSE setLineSpacing(
         setFontSize(applyTheme(pg, c.settings.theme), c.settings.fontSize),
         c.settings.lineSpacing)

\* The listeners that bindEventListeners puts on the document, run on the
\* event dispatched by a call of the manager that took it from m to
\* r.manager: reading-mode-activated shows the toolbar and applies the
\* settings, reading-mode-deactivated hides the toolbar.
bindEventListeners(c, m, r) ==
  IF ~m.isActive /\ r.manager.isActive
  THEN [content |-> [c EXCEPT !.toolbarVisible = TRUE], manager |-> r.manager,
        page |-> applyCurrentSettings(c, r.page)]
  ELSE IF m.isActive /\ ~r.manager.isActive
  THEN [content |-> [c EXCEPT !.toolbarVisible = FALSE], manager |-> r.manager,
        page |-> r.page]
  ELSE [content |-> c, manager |-> r.manager, page |-> r.page]

\* controller.activateReadingMode()
activateReadingMode(c, m, pg, t) ==
  IF c.managers = 0 THEN [content |-> c, manager |-> m, page |-> pg]
  ELSE Bind(activate(m, pg, t), LAMBDA r : bindEventListeners(c, m, r))

\* controller.toggleReadingMode()
toggleReadingMode(c, m, pg, t) ==
  IF c.managers = 0 THEN [content |-> c, manager |-> m, page |-> pg]
  ELSE Bind(toggle(m, pg, t), LAMBDA r : bindEventListeners(c, m, r))

\* The end of setup(): a is the controller, the manager and the page after
\* the activation, if any, and t the document with the toolbar.
setupEnd(a, t) ==
  [content |-> [a.content EXCEPT !.isInitialized = TRUE],
   manager |-> a.manager, page |-> a.page, live |-> t]

\* setup() once the progress bar and the toolbar are in the document t:
\* the listeners are bound, then reading mode is activated if the settings
\* say so.
setupListeners(c, m, pg, t) ==
  Bind(IF c.settings.autoActivate THEN activateReadingMode(c, m, pg, t)
       ELSE [content |-> c, manager |-> m, page |-> pg],
       LAMBDA a : setupEnd(a, t))

\* setup(), from the settlement of loadSettings() on: stored is what
\* chrome.storage.sync.get resolved with.  Without a body createProgressBar
\* throws and the catch clause ends setup() before any listener is bound.
setup(c, m, pg, t, stored) ==
  IF documentBody(t) = NULL
  THEN [content |-> [c EXCEPT !.settings = stored,
                              !.readingAssistantController = "deaf"],
        manager |-> m, page |-> pg, live |-> t]
  ELSE Bind(Attach(t, documentBody(t), <<progressBar, toolbar>>),
            LAMBDA t1 : setupListeners([c EXCEPT !.settings = stored,
                                                 !.readingAssistantController = "listening"],
                                       m, pg, t1))

\* controller.saveSettings(): chrome.storage.sync.set(this.settings), every
\* key of the controller's settings replacing the stored one.
saveSettings(c, stored) == c.settings

\* controller.setTheme(theme)
setTheme(c, m, pg, stored, theme) ==
  [content |-> [c EXCEPT !.settings.theme = theme],
   manager |-> m,
   page |-> IF c.managers = 0 THEN pg ELSE applyTheme(pg, theme),
   storage |-> saveSettings([c EXCEPT !.settings.theme = theme], stored)]

\* controller.cycleTheme()
cycleTheme(c, m, pg, stored) ==
  setTheme(c, m, pg, stored,
           CASE c.settings.theme = "light" -> "dark"
             [] c.settings.theme = "dark" -> "sepia"
             [] OTHER -> "light")

\* The answer of the listener of setupMessageListener: the page and the
\* storage as the handling r of the message left them (the storage
\* untouched if r has none), and what is passed to sendResponse.
sendResponse(r, stored, response) ==
  [content |-> r.content, manager |-> r.manager, page |-> r.page,
   storage |-> IF "storage" \in DOMAIN r THEN r.storage ELSE stored,
   response |-> response]

\* The listener of setupMessageListener.
onMessage(request, c, m, pg, t, stored) ==
  CASE request.action = "toggle-reading-mode" ->
         Bind(toggleReadingMode(c, m, pg, t),
              LAMBDA r : sendResponse(r, stored, "success"))
    [] request.action = "set-theme" ->
         Bind(setTheme(c, m, pg, stored, request.theme),
              LAMBDA r : sendResponse(r, stored, "success"))
    [] request.action = "update-settings" ->
         sendResponse([content |-> [c EXCEPT !.settings.showProgress = request.showProgress],
                 manager |-> m, page |-> pg], stored, "success")
    [] request.action = "get-status" ->
         sendResponse([content |-> c, manager |-> m, page |-> pg], stored, "status")
    [] OTHER ->
         sendResponse([content |-> c, manager |-> m, page |-> pg], stored, "error")

\* this.activeTabsReadingMode.get(tabId), read as a condition (undefined is
\* falsy).
MapGet(map, tabId) == IF tabId \in DOMAIN map THEN map[tabId] ELSE FALSE

\* updateReadingModeStatus(tabId, isActive)
updateReadingModeStatus(map, tabId, isActive) ==
  [k \in DOMAIN map \cup {tabId} |-> IF k = tabId THEN isActive ELSE map[k]]

\* getTabStatus(tabId)
getTabStatus(map, tabId) == [isReadingModeActive |-> MapGet(map, tabId)]

\* handleTabRemoved(tabId)
handleTabRemoved(map, tabId) == [k \in DOMAIN map \ {tabId} |-> map[k]]

\* Mutant: the interval timer deletes nothing.
cleanupExpiredData_keepAll(map, activeTabIds) == map

\* cleanupExpiredData(), from the settlement of chrome.tabs.query({}) on:
\* activeTabIds are the ids of the tabs it resolved with.
cleanupExpiredData(map, activeTabIds) ==
  [k \in DOMAIN map \cap activeTabIds |-> map[k]]

\* The default of the parameter maxRetries of sendMessageWithRetry.
maxRetries == 3

\* The loop throwing one pass late.
sendMessageWithRetry_offByOne(i, resolved) ==
  IF resolved THEN "return"
  ELSE IF i = maxRetries THEN "throw"
  ELSE "retry"

\* One pass of the loop of sendMessageWithRetry: what follows the
\* settlement of sendMessageToTab in pass i.
sendMessageWithRetry(i, resolved) ==
  IF resolved THEN "return"
  ELSE IF i = maxRetries - 1 THEN "throw"
  ELSE "retry"

\* toggleReadingModeForTab(tabId), from the settlement of
\* sendMessageWithRetry on: the map after it, for the response the retry
\* loop returned ("success" for { success: true }, "undefined" otherwise).
toggleReadingModeForTab(map, tabId, response) ==
  IF response = "success"
  THEN updateReadingModeStatus(map, tabId, ~MapGet(map, tabId))
  ELSE map

\* The actions of the messages that handleMessage knows, and one it does
\* not know.
MessageActions ==
  {"open-popup", "update-reading-mode-status", "get-settings", "save-settings",
   "toggle-reading-mode", "get-tab-status", "ping"}

\* Mutant: a toggle request without any tab id is left unanswered.
handleMessage_silentWithoutTab(request, senderTabId, map, stored, rejected) ==
  LET tabId == IF request.tabId # 0 THEN request.tabId ELSE senderTabId
  IN  IF request.action = "toggle-reading-mode"
      THEN [responses |-> <<>>, map |-> map, storage |-> stored, toggle |-> tabId]
      ELSE [responses |-> <<"error">>, map |-> map, storage |-> stored, toggle |-> 0]

\* handleMessage(request, sender, sendResponse) up to its first wait for
\* toggleReadingModeForTab: the payloads passed to sendResponse so far, in
\* order, the map and the storage after it, and the tab whose toggle it
\* waits for (0: none).  senderTabId is sender.tab?.id and a tab id of 0
\* stands for undefined; rejected tells whether chrome.storage.sync.set
\* rejected.  Reading sender.tab.id of a sender without tab throws, which
\* the catch clause answers.
handleMessage(request, senderTabId, map, stored, rejected) ==
  LET answer(payload) ==
        [responses |-> <<payload>>, map |-> map, storage |-> stored, toggle |-> 0]
      action == request.action
  IN  CASE action = "open-popup" -> answer("success")
        [] action = "update-reading-mode-status" ->
             IF senderTabId = 0 THEN answer("error")
             ELSE [answer("success") EXCEPT
                     !.map = updateReadingModeStatus(map, senderTabId, request.isActive)]
        [] action = "get-settings" -> answer("settings")
        [] action = "save-settings" ->
             IF rejected THEN answer("error")
             ELSE [answer("success") EXCEPT !.storage = request.settings]
        [] action = "toggle-reading-mode" ->
             LET tabId == IF request.tabId # 0 THEN request.tabId ELSE senderTabId
             IN  IF tabId # 0
                 THEN [responses |-> <<>>, map |-> map, storage |-> stored,
                       toggle |-> tabId]
                 ELSE answer("error")
        [] action = "get-tab-status" ->
             IF senderTabId = 0 THEN answer("error") ELSE answer("status")
        [] OTHER -> answer("error")

\* handleMessage after toggleReadingModeForTab settled: the payload it
\* passes to sendResponse, { success: true, response } after a return and
\* { error } from the catch clause after a throw.
handleMessageSettled(outcome) ==
  IF outcome = "threw" THEN <<"error">> ELSE <<"success">>

\* A message to the background: its action and the fields some actions read.
Request(action, tabId) ==
  [action |-> action, tabId |-> tabId, isActive |-> TRUE, settings |-> defaultSettings,
   theme |-> "light", showProgress |-> TRUE]

\* The tab of the page: whether it is open, its id and URL, which of the
\* Pages it loads, and whether the manifest declares the two scripts as
\* content scripts of every web page (the manifest is not part of the
\* sources).
Tab(url, document, declared) ==
  [open |-> TRUE, id |-> 1, url |-> url, document |-> document, declared |-> declared]

\* Another tab, open throughout.
otherTabs == {2}

\* The scripts of the page once it has loaded.
LoadedContent(t) ==
  IF t.declared /\ canInject(t.url)
  THEN evalContentJs(evalDomUtils(FreshContent, NewManager).content)
  ELSE FreshContent

\* The background after its construction: the map, the tab events not yet
\* handled, and the timer and fate of the auto-activate message.
NewBackground(map) ==
  [activeTabsReadingMode |-> map, onUpdated |-> FALSE, onRemoved |-> FALSE,
   autoActivate |-> "none"]

EmptyMap == [k \in {} |-> FALSE]

\* A request to toggleReadingModeForTab on its way: where it waits, what
\* started it, its tab and the pass i of its retry loop.
IdleCall == [pc |-> "idle", entry |-> "none", tabId |-> 0, i |-> 0]

NewCall(entry, tabId) == [pc |-> "check", entry |-> entry, tabId |-> tabId, i |-> 0]

\* The request completed last: what started it, how toggleReadingModeForTab
\* ended (returned, threw), what the retry loop returned, the pass whose
\* error it threw (0: none), whether the map was written, and the payloads
\* passed to sendResponse.
NoResult ==
  [entry |-> "none", action |-> "none", outcome |-> "none", response |-> "none",
   error |-> 0, wrote |-> FALSE, responses |-> <<>>]

\* The popup: closed, or open with the fields of its PopupController.
ClosedPopup == [open |-> FALSE, isReadingModeActive |-> FALSE, settings |-> defaultSettings]

\* new PopupController() to the end of init(): loadSettings() reads the
\* storage, getReadingModeStatus() asks the content script, if it listens,
\* and merges the settings of its answer over the loaded ones.
popupInit(stored, listening, c, m) ==
  IF listening
  THEN [open |-> TRUE, isReadingModeActive |-> c.managers > 0 /\ m.isActive,
        settings |-> c.settings]
  ELSE [open |-> TRUE, isReadingModeActive |-> FALSE, settings |-> stored]

\* PopupController.toggleReadingMode() after the answer of the background.
popupToggleSettled(p, responses) ==
  IF responses = <<"success">> THEN [p EXCEPT !.isReadingModeActive = ~@] ELSE p

\* The page as it was before the last successful activation, and the
\* candidate that activation chose.
NoHistory == [activated |-> FALSE, page |-> LoadedPage("", ""), candidate |-> NULL]

\* A model of the engine alone: no tab, no background, no popup.
NoExtension ==
  /\ tab = [Tab(NoUrl, 1, FALSE) EXCEPT !.open = FALSE]
  /\ contentScript = FreshContent
  /\ storage = defaultSettings
  /\ backgroundController = NewBackground(EmptyMap)
  /\ calls = <<>>
  /\ finished = NoResult
  /\ popup = ClosedPopup
  /\ history = NoHistory

-----------------------------------------------------------------------------
(* The state: the live document, the last completed call of the extractor   *)
(* with what it returned, and the call completed before that one.           *)

NoCall ==
  [op |-> "none", arg |-> NULL, ret |-> NULL, where |-> "null",
   evaluated |-> <<>>, fragment |-> NoTree]

Init ==
  /\ live \in Docs
  /\ last = NoCall
  /\ prev = NoCall
  /\ readingModeManager = NewManager
  /\ page = LoadedPage("", "")
  /\ NoExtension

\* extractor.extractMainContent()
ExtractMainContent ==
  \E r \in {extractMainContent(live)} :
    /\ last' = [op |-> "extractMainContent", arg |-> NULL, ret |-> r.content,
                where |-> IF r.content = NULL THEN "null" ELSE "live",
                evaluated |-> r.evaluated, fragment |-> NoTree]
    /\ prev' = last
    /\ UNCHANGED <<live, readingModeManager, page, extVars>>

\* extractor.cleanContent(content)
CleanContent(content) ==
  \E r \in {cleanContent([live |-> live, copy |-> NoTree], content)} :
    /\ live' = r.heap.live
    /\ last' = [op |-> "cleanContent", arg |-> content, ret |-> r.ret.id,
                where |-> r.ret.tree, evaluated |-> <<>>,
                fragment |-> IF r.ret.tree = "null" THEN NoTree
                             ELSE TreeOf(r.heap[r.ret.tree], r.ret.id)]
    /\ prev' = last
    /\ UNCHANGED <<readingModeManager, page, extVars>>

\* cleanContent on what extractMainContent has just returned, an element of
\* the document or null, as ReadingModeManager.activate calls it.
CleanExtracted ==
  /\ last.op = "extractMainContent"
  /\ CleanContent(last.ret)

\* cleanContent once more on the candidate of the call just completed (the
\* element of the document, not the fragment that call returned).
CleanAgain ==
  /\ last.op = "cleanContent"
  /\ prev.op = "extractMainContent"
  /\ CleanContent(last.arg)

Next ==
  \/ ExtractMainContent
  \/ CleanExtracted
  \/ CleanAgain

Spec == Init /\ [][Next]_vars

-----------------------------------------------------------------------------
(* window.readingModeManager on a loaded page: calls of activate,           *)
(* deactivate and toggle in any order.                                      *)

ManagerInit ==
  /\ live \in Docs
  /\ last = NoCall
  /\ prev = NoCall
  /\ readingModeManager = NewManager
  /\ page \in {LoadedPage("", ""), LoadedPage("hidden", "#000000")}
  /\ NoExtension

\* readingModeManager.activate()
Activate ==
  \E r \in {activate(readingModeManager, page, live)} :
    /\ readingModeManager' = r.manager
    /\ page' = r.page
    /\ UNCHANGED <<live, last, prev, extVars>>

\* readingModeManager.deactivate()
Deactivate ==
  \E r \in {deactivate(readingModeManager, page)} :
    /\ readingModeManager' = r.manager
    /\ page' = r.page
    /\ UNCHANGED <<live, last, prev, extVars>>

\* readingModeManager.toggle()
Toggle ==
  \E r \in {toggle(readingModeManager, page, live)} :
    /\ readingModeManager' = r.manager
    /\ page' = r.page
    /\ UNCHANGED <<live, last, prev, extVars>>

ManagerNext ==
  \/ Activate
  \/ Deactivate
  \/ Toggle

ManagerSpec == ManagerInit /\ [][ManagerNext]_vars

-----------------------------------------------------------------------------
(* The extension at work on one tab: the entry points of the background     *)
(* that reach toggleReadingModeForTab, the steps of that function between   *)
(* its waits, the content script in the page, the popup, and the life of    *)
(* the tab.                                                                 *)

\* How many calls of toggleReadingModeForTab may be on their way at once.
MaxRequests == 2

Requests == 1..MaxRequests

\* The documents of the tab: an article page, and a page whose only text
\* is one long link, in which no stage finds a candidate.
Pages == <<BuildDoc(TRUE, <<Blocks[1]>>), BuildDoc(TRUE, <<Blocks[10]>>)>>

ExtensionInit(urls, documents, declarations, stores, maps) ==
  /\ tab \in {Tab(u, d, m) : u \in urls, d \in documents, m \in declarations}
  /\ live = Pages[tab.document]
  /\ last = NoCall
  /\ prev = NoCall
  /\ readingModeManager = NewManager
  /\ page = LoadedPage("", "")
  /\ contentScript = LoadedContent(tab)
  /\ storage \in stores
  /\ backgroundController \in {NewBackground(map) : map \in maps}
  /\ calls = [r \in Requests |-> IdleCall]
  /\ finished = NoResult
  /\ popup = ClosedPopup
  /\ history = NoHistory

\* The page before a call of the manager that activated reading mode.
Remember(m, r, pg, t) ==
  IF ~m.isActive /\ r.manager.isActive
  THEN [activated |-> TRUE, page |-> pg, candidate |-> extractMainContent(t).content]
  ELSE history

\* Whether a message sent to the tab finds the listener of the content
\* script.
Receiver == tab.open /\ contentScript.readingAssistantController = "listening"

\* Whether the browser runs a script of the extension in the tab.
Injectable == tab.open /\ canInject(tab.url)

\* The calls on their way are told apart by nothing but their progress:
\* they are kept in the order of it, the idle ones last.
Progress(c) ==
  (CASE c.pc = "idle" -> 0 [] c.pc = "check" -> 1 [] c.pc = "domUtils" -> 2
     [] c.pc = "contentJs" -> 3 [] c.pc = "send" -> 4 [] OTHER -> 5) * 100
  + (CASE c.entry = "icon" -> 1 [] c.entry = "command" -> 2 [] c.entry = "popup" -> 3
       [] c.entry = "message" -> 4 [] OTHER -> 0) * 10
  + c.i

Ahead(c, d) == Progress(c) > Progress(d)

InOrder(cs) == SortSeq(cs, Ahead)

\* toggleReadingModeForTab(tabId) is called.
Start(entry, tabId) ==
  \E r \in Requests :
    /\ calls[r].pc = "idle"
    /\ \A q \in Requests : q < r => calls[q].pc # "idle"
    /\ calls' = InOrder([calls EXCEPT ![r] = NewCall(entry, tabId)])

\* toggleReadingModeForTab of call r settles.
Complete(r, outcome, response, error) ==
  LET c == calls[r]
      map == backgroundController.activeTabsReadingMode
      map2 == IF outcome = "returned"
              THEN toggleReadingModeForTab(map, c.tabId, response) ELSE map
      responses == IF c.entry \in {"popup", "message"}
                   THEN handleMessageSettled(outcome) ELSE <<>>
  IN  /\ calls' = InOrder([calls EXCEPT ![r] = IdleCall])
      /\ backgroundController' =
           [backgroundController EXCEPT !.activeTabsReadingMode = map2]
      /\ finished' = [entry |-> c.entry, action |-> "toggle-reading-mode",
                      outcome |-> outcome, response |-> response, error |-> error,
                      wrote |-> map2 # map, responses |-> responses]
      /\ popup' = IF c.entry = "popup" /\ popup.open
                  THEN popupToggleSettled(popup, responses) ELSE popup

\* chrome.action.onClicked: handleActionClicked(tab)
HandleActionClicked ==
  /\ tab.open
  /\ IF isValidUrl(tab.url)
     THEN Start("icon", tab.id) /\ UNCHANGED finished
     ELSE /\ finished' = [NoResult EXCEPT !.entry = "icon", !.outcome = "notified"]
          /\ UNCHANGED calls
  /\ UNCHANGED <<live, last, prev, readingModeManager, page, tab, contentScript,
                 storage, backgroundController, popup, history>>

\* chrome.commands.onCommand: handleCommand('toggle-reading-mode'), pressed
\* in the tab, which chrome.tabs.query resolves with.
HandleCommand ==
  /\ tab.open
  /\ IF isValidUrl(tab.url)
     THEN Start("command", tab.id) /\ UNCHANGED finished
     ELSE /\ finished' = [NoResult EXCEPT !.entry = "command", !.outcome = "ignored"]
          /\ UNCHANGED calls
  /\ UNCHANGED <<live, last, prev, readingModeManager, page, tab, contentScript,
                 storage, backgroundController, popup, history>>

\* chrome.runtime.onMessage of the background: handleMessage(request, sender,
\* sendResponse), up to its wait for toggleReadingModeForTab if it has one.
HandleMessage(entry, request, senderTabId) ==
  \E rejected \in BOOLEAN :
    \E h \in {handleMessage(request, senderTabId,
                            backgroundController.activeTabsReadingMode,
                            storage, rejected)} :
      /\ backgroundController' =
           [backgroundController EXCEPT !.activeTabsReadingMode = h.map]
      /\ storage' = h.storage
      /\ IF h.toggle # 0
         THEN Start(entry, h.toggle) /\ UNCHANGED finished
         ELSE /\ finished' = [NoResult EXCEPT !.entry = entry, !.action = request.action,
                                             !.outcome = "returned",
                                             !.responses = h.responses]
              /\ UNCHANGED calls
      /\ UNCHANGED <<live, last, prev, readingModeManager, page, tab, contentScript,
                     popup, history>>

\* The toggle button of the popup: PopupController.toggleReadingMode() up
\* to its wait for the answer of the background.
PopupToggleReadingMode ==
  /\ popup.open
  /\ HandleMessage("popup", Request("toggle-reading-mode", tab.id), 0)

\* checkIfScriptInjected(tabId) settles.
CheckIfScriptInjected(r) ==
  /\ calls[r].pc = "check"
  /\ calls' = InOrder([calls EXCEPT ![r].pc =
                 IF Injectable /\ contentScript.readingAssistantController # "undefined"
                 THEN "send" ELSE "domUtils"])
  /\ UNCHANGED <<live, last, prev, readingModeManager, page, tab, contentScript,
                 storage, backgroundController, finished, popup, history>>

\* executeScript of utils/dom-utils.js settles; for a script that ended in
\* an error the browser resolves or rejects the promise.
InjectDomUtils(r) ==
  /\ calls[r].pc = "domUtils"
  /\ IF Injectable
     THEN \E e \in {evalDomUtils(contentScript, readingModeManager)} :
            /\ contentScript' = e.content
            /\ readingModeManager' = e.manager
            /\ \E rejects \in {FALSE, e.threw} :
                 IF rejects
                 THEN Complete(r, "threw", "none", 0)
                 ELSE /\ calls' = InOrder([calls EXCEPT ![r].pc = "contentJs"])
                      /\ UNCHANGED <<backgroundController, finished, popup>>
     ELSE /\ Complete(r, "threw", "none", 0)
          /\ UNCHANGED <<contentScript, readingModeManager>>
  /\ UNCHANGED <<live, last, prev, page, tab, storage, history>>

\* executeScript of content.js settles, then insertCSS and the wait of
\* 100 ms.
InjectContentJs(r) ==
  /\ calls[r].pc = "contentJs"
  /\ IF Injectable
     THEN /\ contentScript' = evalContentJs(contentScript)
          /\ calls' = InOrder([calls EXCEPT ![r].pc = "send"])
          /\ UNCHANGED <<backgroundController, finished, popup>>
     ELSE /\ Complete(r, "threw", "none", 0)
          /\ UNCHANGED contentScript
  /\ UNCHANGED <<live, last, prev, readingModeManager, page, tab, storage, history>>

\* Pass i of sendMessageWithRetry: sendMessageToTab delivers the toggle
\* message to the listener of the content script, which answers at once,
\* or finds no listener and rejects.
SendMessageToTab(r) ==
  /\ calls[r].pc = "send"
  /\ IF Receiver
     THEN \E h \in {onMessage(Request("toggle-reading-mode", 0), contentScript,
                              readingModeManager, page, live, storage)} :
            /\ contentScript' = h.content
            /\ readingModeManager' = h.manager
            /\ page' = h.page
            /\ history' = Remember(readingModeManager, h, page, live)
            /\ calls' = InOrder([calls EXCEPT ![r].pc = "reply"])
            /\ UNCHANGED <<backgroundController, finished, popup>>
     ELSE /\ \E next \in {sendMessageWithRetry(calls[r].i, FALSE)} :
               CASE next = "throw" -> Complete(r, "threw", "none", calls[r].i + 1)
                 [] next = "retry" /\ calls[r].i + 1 < maxRetries ->
                      /\ calls' = InOrder([calls EXCEPT ![r].i = @ + 1])
                      /\ UNCHANGED <<backgroundController, finished, popup>>
                 [] OTHER -> Complete(r, "returned", "undefined", 0)
          /\ UNCHANGED <<contentScript, readingModeManager, page, history>>
  /\ UNCHANGED <<live, last, prev, tab, storage>>

\* The answer of the content script reaches the background: pass i of
\* sendMessageWithRetry returns it and toggleReadingModeForTab goes on.
ReceiveResponse(r) ==
  /\ calls[r].pc = "reply"
  /\ \E next \in {sendMessageWithRetry(calls[r].i, TRUE)} :
       /\ next = "return"
       /\ Complete(r, "returned", "success", 0)
  /\ UNCHANGED <<live, last, prev, readingModeManager, page, tab, contentScript,
                 storage, history>>

\* loadSettings() of the controller settles and setup() goes on.
Setup ==
  /\ tab.open
  /\ contentScript.readingAssistantController = "constructed"
  /\ \E s \in {setup(contentScript, readingModeManager, page, live, storage)} :
       /\ contentScript' = s.content
       /\ readingModeManager' = s.manager
       /\ page' = s.page
       /\ live' = s.live
       /\ history' = Remember(readingModeManager, s, page, s.live)
  /\ UNCHANGED <<last, prev, tab, storage, backgroundController, calls, finished,
                 popup>>

\* The toggle button of the toolbar, shown while reading mode is active,
\* or Ctrl+Shift+R in the page.
InPageToggle ==
  /\ Receiver
  /\ \E h \in {toggleReadingMode(contentScript, readingModeManager, page, live)} :
       /\ contentScript' = h.content
       /\ readingModeManager' = h.manager
       /\ page' = h.page
       /\ history' = Remember(readingModeManager, h, page, live)
  /\ UNCHANGED <<live, last, prev, tab, storage, backgroundController, calls,
                 finished, popup>>

\* The popup is opened on the tab: new PopupController(), to the end of
\* init().
PopupOpen ==
  /\ tab.open
  /\ ~popup.open
  /\ popup' = popupInit(storage, Receiver, contentScript, readingModeManager)
  /\ UNCHANGED <<live, last, prev, readingModeManager, page, tab, contentScript,
                 storage, backgroundController, calls, finished, history>>

\* The popup is closed; the answers to its requests reach nobody.
PopupClose ==
  /\ popup.open
  /\ popup' = ClosedPopup
  /\ calls' = InOrder([r \in Requests |->
                 IF calls[r].entry = "popup" THEN [calls[r] EXCEPT !.entry = "message"]
                 ELSE calls[r]])
  /\ UNCHANGED <<live, last, prev, readingModeManager, page, tab, contentScript,
                 storage, backgroundController, finished, history>>

\* The autoActivate checkbox of the popup changes: the listener of
\* bindEvents sets the field and saves the settings of the popup.
PopupSetAutoActivate(checked) ==
  /\ popup.open
  /\ popup' = [popup EXCEPT !.settings.autoActivate = checked]
  /\ storage' = popup'.settings
  /\ UNCHANGED <<live, last, prev, readingModeManager, page, tab, contentScript,
                 backgroundController, calls, finished, history>>

\* The showProgress checkbox of the popup changes: the field is set, the
\* settings of the popup are saved and 'update-settings' is sent to the tab.
PopupSetShowProgress(checked) ==
  /\ popup.open
  /\ popup' = [popup EXCEPT !.settings.showProgress = checked]
  /\ IF Receiver
     THEN \E h \in {onMessage([Request("update-settings", 0) EXCEPT
                                 !.showProgress = checked],
                              contentScript, readingModeManager, page, live,
                              popup'.settings)} :
            /\ contentScript' = h.content
            /\ storage' = h.storage
     ELSE /\ storage' = popup'.settings
          /\ UNCHANGED contentScript
  /\ UNCHANGED <<live, last, prev, readingModeManager, page, tab,
                 backgroundController, calls, finished, history>>

\* A theme button of the popup: PopupController.setTheme(theme) sets the
\* field, saves the settings of the popup and sends 'set-theme' to the
\* tab, whose controller sets the theme and saves its own settings.
PopupSetTheme(theme) ==
  /\ popup.open
  /\ popup' = [popup EXCEPT !.settings.theme = theme]
  /\ IF Receiver
     THEN \E h \in {onMessage([Request("set-theme", 0) EXCEPT !.theme = theme],
                              contentScript, readingModeManager, page, live,
                              popup'.settings)} :
            /\ contentScript' = h.content
            /\ page' = h.page
            /\ storage' = h.storage
     ELSE /\ storage' = popup'.settings
          /\ UNCHANGED <<contentScript, page>>
  /\ UNCHANGED <<live, last, prev, readingModeManager, tab, backgroundController,
                 calls, finished, history>>

\* The theme button of the toolbar, shown while reading mode is active.
CycleTheme ==
  /\ Receiver
  /\ contentScript.toolbarVisible
  /\ \E h \in {cycleTheme(contentScript, readingModeManager, page, storage)} :
       /\ contentScript' = h.content
       /\ page' = h.page
       /\ storage' = h.storage
  /\ UNCHANGED <<live, last, prev, readingModeManager, tab, backgroundController,
                 calls, finished, popup, history>>

\* The tab loads its page again, to status 'complete'; one load at a time
\* is on its way to handleTabUpdated and the timer.
PageLoad ==
  /\ tab.open
  /\ ~backgroundController.onUpdated
  /\ backgroundController.autoActivate # "armed"
  /\ live' = Pages[tab.document]
  /\ readingModeManager' = NewManager
  /\ page' = LoadedPage("", "")
  /\ contentScript' = LoadedContent(tab)
  /\ history' = NoHistory
  /\ backgroundController' =
       [backgroundController EXCEPT !.onUpdated = TRUE, !.autoActivate = "none"]
  /\ UNCHANGED <<last, prev, tab, storage, calls, finished, popup>>

\* chrome.tabs.onUpdated: handleTabUpdated(tabId, { status: 'complete' }, tab)
HandleTabUpdated ==
  /\ backgroundController.onUpdated
  /\ backgroundController' =
       [backgroundController EXCEPT
          !.onUpdated = FALSE,
          !.autoActivate = IF tab.url # NoUrl /\ storage.autoActivate
                              /\ isValidUrl(tab.url)
                           THEN "armed" ELSE "none"]
  /\ UNCHANGED <<live, last, prev, readingModeManager, page, tab, contentScript,
                 storage, calls, finished, popup, history>>

\* The timer of handleTabUpdated: sendMessageToTab(tabId, { action:
\* 'auto-activate' }).
AutoActivate ==
  /\ backgroundController.autoActivate = "armed"
  /\ IF Receiver
     THEN \E h \in {onMessage(Request("auto-activate", 0), contentScript,
                              readingModeManager, page, live, storage)} :
            /\ contentScript' = h.content
            /\ readingModeManager' = h.manager
            /\ page' = h.page
            /\ history' = Remember(readingModeManager, h, page, live)
            /\ backgroundController' =
                 [backgroundController EXCEPT !.autoActivate = h.response]
     ELSE /\ backgroundController' =
               [backgroundController EXCEPT !.autoActivate = "no receiver"]
          /\ UNCHANGED <<contentScript, readingModeManager, page, history>>
  /\ UNCHANGED <<live, last, prev, tab, storage, calls, finished, popup>>

\* The tab is closed.
CloseTab ==
  /\ tab.open
  /\ tab' = [tab EXCEPT !.open = FALSE]
  /\ backgroundController' = [backgroundController EXCEPT !.onRemoved = TRUE]
  /\ UNCHANGED <<live, last, prev, readingModeManager, page, contentScript, storage,
                 calls, finished, popup, history>>

\* chrome.tabs.onRemoved: handleTabRemoved(tabId)
HandleTabRemoved ==
  /\ backgroundController.onRemoved
  /\ backgroundController' =
       [backgroundController EXCEPT
          !.onRemoved = FALSE,
          !.activeTabsReadingMode = handleTabRemoved(@, tab.id)]
  /\ UNCHANGED <<live, last, prev, readingModeManager, page, tab, contentScript,
                 storage, calls, finished, popup, history>>

\* The interval timer of the background: cleanupExpiredData()
CleanupExpiredData ==
  /\ backgroundController' =
       [backgroundController EXCEPT
          !.activeTabsReadingMode =
             cleanupExpiredData(@, otherTabs \cup (IF tab.open THEN {tab.id} ELSE {}))]
  /\ finished' = [NoResult EXCEPT !.entry = "timer", !.action = "cleanupExpiredData",
                                  !.outcome = "returned",
                                  !.wrote = backgroundController' # backgroundController]
  /\ UNCHANGED <<live, last, prev, readingModeManager, page, tab, contentScript,
                 storage, calls, popup, history>>

\* A 'toggle-reading-mode' message for the tab reaches the background.
ToggleMessage == HandleMessage("message", Request("toggle-reading-mode", tab.id), 0)

\* The steps of the calls on their way and of the content script.
Steps ==
  \/ \E r \in Requests : CheckIfScriptInjected(r)
  \/ \E r \in Requests : InjectDomUtils(r)
  \/ \E r \in Requests : InjectContentJs(r)
  \/ \E r \in Requests : SendMessageToTab(r)
  \/ \E r \in Requests : ReceiveResponse(r)
  \/ Setup

\* Toggle requests from the three entry points of the background, in any
\* number and interleaving, on a tab showing an article at one of the Urls.
ToggleNext ==
  \/ HandleActionClicked
  \/ HandleCommand
  \/ ToggleMessage
  \/ Steps

ToggleSpec ==
  /\ ExtensionInit(Urls, {1}, {FALSE}, {defaultSettings}, {EmptyMap})
  /\ [][ToggleNext]_vars

\* No call of toggleReadingModeForTab is on its way.
Quiescent == \A r \in Requests : calls[r].pc = "idle"

\* Toggles from everywhere, each made when the one before has completed:
\* the icon, the command, the popup, the toolbar and the shortcut of the
\* page, on a tab that shows one of the Pages and may load it again.
StatusNext ==
  \/ Quiescent /\ HandleActionClicked
  \/ Quiescent /\ HandleCommand
  \/ Quiescent /\ PopupOpen
  \/ Quiescent /\ PopupToggleReadingMode
  \/ Quiescent /\ PopupClose
  \/ Quiescent /\ InPageToggle
  \/ Quiescent /\ PageLoad
  \/ HandleTabUpdated
  \/ Steps

StatusSpec ==
  /\ ExtensionInit({WebUrl}, DOMAIN Pages, {FALSE}, {defaultSettings}, {EmptyMap})
  /\ [][StatusNext]_vars

\* The settings with autoActivate switched on.
autoActivateSettings == [defaultSettings EXCEPT !.autoActivate = TRUE]

\* Page loads of a tab while autoActivate is on, with toggles from the
\* icon and from the page in between.  The content script is in the page
\* by declaration or by the injection of a toggle.
AutoNext ==
  \/ PageLoad
  \/ HandleTabUpdated
  \/ AutoActivate
  \/ Quiescent /\ HandleActionClicked
  \/ Quiescent /\ InPageToggle
  \/ Steps

\* The event of the load is delivered to handleTabUpdated and its timer
\* fires.
AutoSpec ==
  /\ ExtensionInit({WebUrl}, DOMAIN Pages, BOOLEAN, {autoActivateSettings}, {EmptyMap})
  /\ [][AutoNext]_vars
  /\ WF_vars(HandleTabUpdated)
  /\ WF_vars(AutoActivate)

\* The map with an entry for the other tab.
OtherTabMap == [k \in otherTabs |-> TRUE]

\* Toggles from the icon, one at a time, on a tab that is closed at any
\* moment, and the interval timer of the background.
CloseNext ==
  \/ Quiescent /\ HandleActionClicked
  \/ CloseTab
  \/ HandleTabRemoved
  \/ CleanupExpiredData
  \/ Steps

\* The event of the closing is delivered to handleTabRemoved and the
\* interval timer fires again and again; a toggle on its way may settle at
\* any time or never.
CloseSpec ==
  /\ ExtensionInit({WebUrl}, DOMAIN Pages, {FALSE}, {defaultSettings},
                   {EmptyMap, OtherTabMap})
  /\ [][CloseNext]_vars
  /\ WF_vars(HandleTabRemoved)
  /\ WF_vars(CleanupExpiredData)

\* The tab ids a message carries or comes from; 0 stands for none.
MessageTabIds == {0, tab.id}

\* Messages to the background with every action, with and without a tab
\* id, from a tab and from elsewhere, in any number and interleaving.
MessageNext ==
  \/ \E action \in MessageActions, tabId \in MessageTabIds, senderTabId \in MessageTabIds :
       HandleMessage("message", Request(action, tabId), senderTabId)
  \/ Steps

MessageSpec ==
  /\ ExtensionInit({WebUrl, BrowserUrl}, {1}, {FALSE}, {defaultSettings}, {EmptyMap})
  /\ [][MessageNext]_vars

Themes == {"light", "dark", "sepia"}

\* Changes of the settings from the popup and from the toolbar of the
\* page, on a tab whose content script a click on the icon injected.
SettingsNext ==
  \/ Quiescent /\ HandleActionClicked
  \/ PopupOpen
  \/ PopupClose
  \/ \E checked \in BOOLEAN : PopupSetAutoActivate(checked)
  \/ \E checked \in BOOLEAN : PopupSetShowProgress(checked)
  \/ \E theme \in Themes : PopupSetTheme(theme)
  \/ CycleTheme
  \/ Steps

SettingsSpec ==
  /\ ExtensionInit({WebUrl}, {1}, {FALSE}, {defaultSettings}, {EmptyMap})
  /\ [][SettingsNext]_vars

-----------------------------------------------------------------------------
(* What the claims speak of, stated on the document itself.                 *)

RECURSIVE TotalLength(_, _, _)
\* The sum over the elements e of S of the length of their text, trimmed or
\* not.
TotalLength(t, S, trimmed) ==
  IF S = {} THEN 0
  ELSE LET e == CHOOSE x \in S : TRUE
           s == textContent(t, e)
       IN  (IF trimmed THEN s.core ELSE Length(s)) + TotalLength(t, S \ {e}, trimmed)

TrimmedTextLength(t, e) == textContent(t, e).core

Anchors(t, e) == {i \in Descendants(t, e) : t[i].kind = "elem" /\ t[i].tag = "a"}

\* The text length of the hyperlink descendants as the code counts it: the
\* untrimmed text of every a element.
AnchorTextLength(t, e) == TotalLength(t, Anchors(t, e), FALSE)

DescendantElements(t, e) == {i \in Descendants(t, e) : t[i].kind = "elem"}

\* Every element of t with what the claims measure of it.
Measures(t) ==
  { [e |-> e,
     total |-> TrimmedTextLength(t, e),
     anchor |-> AnchorTextLength(t, e),
     anchorTrimmed |-> TotalLength(t, Anchors(t, e), TRUE),
     count |-> Cardinality(DescendantElements(t, e)),
     density |-> calculateTextDensity(t, e)] : e \in Elements(t) }

PassesFilter(m) == m.total >= minTextLength /\ 2 * m.anchor <= m.total

PassesValidityFilter(t, e) ==
  /\ TrimmedTextLength(t, e) >= minTextLength
  /\ 2 * AnchorTextLength(t, e) <= TrimmedTextLength(t, e)

MatchesStage1(t, e) ==
  \E k \in DOMAIN contentSelectors : Matches(t[e], contentSelectors[k])

\* The first element in document order that matches the k-th stage-1
\* selector, or NULL.
FirstMatch(t, k) ==
  LET M == {i \in Elements(t) : Matches(t[i], contentSelectors[k])}
  IN  IF M = {} THEN NULL ELSE CHOOSE i \in M : \A j \in M : i <= j

\* The stage-1 selectors whose first match in document order passes the
\* Validity Filter.
ValidFirst(t) ==
  {k \in DOMAIN contentSelectors :
     FirstMatch(t, k) # NULL /\ PassesValidityFilter(t, FirstMatch(t, k))}

Stage1Only == <<"findContentBySelectors">>

Extracted == last.op = "extractMainContent"

Evaluated(stage) == \E k \in DOMAIN last.evaluated : last.evaluated[k] = stage

-----------------------------------------------------------------------------
\* C1 (as stated): whenever some element matches a stage-1 selector and passes
\* the Validity Filter, extractMainContent returns an element that matches a
\* stage-1 selector and passes the filter, that of the earliest selector with
\* a matching valid element, and evaluates neither stage 2 nor stage 3.
C1_AnyValidMatch ==
  Extracted =>
    \A K \in { {k \in DOMAIN contentSelectors :
                  \E e \in Elements(live) : /\ Matches(live[e], contentSelectors[k])
                                            /\ PassesValidityFilter(live, e)} } :
      K # {} =>
        /\ last.ret # NULL
        /\ MatchesStage1(live, last.ret)
        /\ PassesValidityFilter(live, last.ret)
        /\ Matches(live[last.ret], contentSelectors[CHOOSE k \in K : \A j \in K : k <= j])
        /\ last.evaluated = Stage1Only

\* C1 (amended): whenever, for some stage-1 selector, the first element in
\* document order that matches it passes the Validity Filter,
\* extractMainContent returns that first match of the earliest such selector
\* of the list, and evaluates neither stage 2 nor stage 3.
C1_FirstMatchOfEarliestSelector ==
  Extracted =>
    \A VF \in {ValidFirst(live)} :
      VF # {} =>
        /\ last.ret = FirstMatch(live, CHOOSE k \in VF : \A j \in VF : k <= j)
        /\ last.evaluated = Stage1Only

\* Witness of C1: two selectors have a valid first match, the one earlier in
\* the list matches later in the document, and it is the one returned.
C1_Witness ==
  /\ Extracted
  /\ \E k1, k2 \in ValidFirst(live) :
       /\ k1 < k2
       /\ FirstMatch(live, k2) < FirstMatch(live, k1)
       /\ last.ret = FirstMatch(live, k1)

-----------------------------------------------------------------------------
DensityCandidates(t) == {i \in Elements(t) : t[i].tag \in {"div", "section", "main"}}

\* The div/section/main elements of density above the threshold, each with
\* its density.
AboveThreshold(t) ==
  { m \in { [e |-> c, density |-> calculateTextDensity(t, c)] : c \in DensityCandidates(t) } :
      RatGtInt(m.density, textDensityThreshold) }

\* C2: when stage 1 yields no element, extractMainContent returns a
\* div/section/main element of density above 25 whose density is the maximum
\* over those elements; when there is none, it returns what
\* findLargestTextBlock returns.
C2_DensityMaximum ==
  (Extracted /\ findContentBySelectors(live) = NULL) =>
    \A A \in {AboveThreshold(live)} :
      IF A # {}
      THEN /\ \E m \in A : /\ m.e = last.ret
                           /\ \A n \in A : ~RatGt(n.density, m.density)
           /\ ~Evaluated("findLargestTextBlock")
      ELSE /\ last.ret = findLargestTextBlock(live)
           /\ Evaluated("findLargestTextBlock")

\* Witness of C2: stage 2 returned a candidate that is not the first one
\* above the threshold.
C2_Witness ==
  /\ Extracted
  /\ Evaluated("findContentByTextDensity")
  /\ \E m, n \in AboveThreshold(live) : m.e = last.ret /\ n.e < m.e

-----------------------------------------------------------------------------
\* C3: findLargestTextBlock returns the element of greatest trimmed text
\* length among the elements that pass the Validity Filter, the first in
\* document order of several, and null exactly when no element passes.
C3_LargestValidBlock ==
  Extracted =>
    \A r \in {findLargestTextBlock(live)} :
      \A V \in { {m \in Measures(live) : PassesFilter(m)} } :
        /\ (r = NULL) <=> (V = {})
        /\ r # NULL =>
             \E m \in V : /\ m.e = r
                          /\ \A n \in V : /\ n.total <= m.total
                                          /\ n.total = m.total => m.e <= n.e
        /\ Evaluated("findLargestTextBlock") => last.ret = r

\* Witness of C3: stage 3 ran and returned an element that another valid
\* element ties with, while a further valid element is shorter.
C3_Witness ==
  /\ Extracted
  /\ Evaluated("findLargestTextBlock")
  /\ last.ret # NULL
  /\ \E e1, e2 \in Elements(live) :
       /\ e1 # last.ret
       /\ PassesValidityFilter(live, e1) /\ PassesValidityFilter(live, e2)
       /\ TrimmedTextLength(live, e1) = TrimmedTextLength(live, last.ret)
       /\ TrimmedTextLength(live, e2) < TrimmedTextLength(live, last.ret)

-----------------------------------------------------------------------------
\* C4: isValidContent is false for null, false below 100 trimmed characters
\* whatever the link ratio, false when the anchor text length is more than
\* half the trimmed text length, and true in every other case (a ratio of
\* exactly 0.5 passes).
C4_ValidityFilter ==
  Extracted =>
    /\ ~isValidContent(live, NULL)
    /\ \A m \in Measures(live) :
         \A valid \in {isValidContent(live, m.e)} :
           /\ m.total < 100 => ~valid
           /\ 2 * m.anchor > m.total => ~valid
           /\ (m.total >= 100 /\ 2 * m.anchor <= m.total) => valid
           /\ (m.total = 500 /\ m.anchor = 260) => ~valid

\* Witness of C4: the extractor has run on a document with an element of 500
\* characters, 260 of them anchor text, and it returned an element whose
\* link ratio is exactly 0.5.
C4_Witness ==
  /\ Extracted
  /\ \E e \in Elements(live) :
       TrimmedTextLength(live, e) = 500 /\ AnchorTextLength(live, e) = 260
  /\ last.ret # NULL
  /\ 2 * AnchorTextLength(live, last.ret) = TrimmedTextLength(live, last.ret)

-----------------------------------------------------------------------------
\* C5 (as stated): the density score of every element equals
\* (total_text_length - anchor_text_length) / max(1, descendant_element_count)
\* with total_text_length the trimmed text length, anchor_text_length the
\* sum of the trimmed text lengths of the hyperlink descendants.
C5_DensityFormulaAsStated ==
  Extracted =>
    \A m \in Measures(live) :
      m.density.num * (IF m.count >= 1 THEN m.count ELSE 1)
        = (m.total - m.anchorTrimmed) * m.density.den

\* C5 (amended): for an element with at least one descendant element the
\* density score equals (total_text_length - anchor_text_length) /
\* descendant_element_count with anchor_text_length the sum of the untrimmed
\* text lengths of the hyperlink descendants, and for an element with no
\* descendant element it is 0; 1000 / 200 / 40 gives 20, which the strict
\* > 25 threshold of stage 2 rejects.
C5_DensityAsComputed ==
  Extracted =>
    \A m \in Measures(live) :
      /\ m.count >= 1 => m.density.num * m.count = (m.total - m.anchor) * m.density.den
      /\ m.count = 0 => m.density.num = 0
      /\ (m.total = 1000 /\ m.anchor = 200 /\ m.count = 40) =>
           /\ m.density.num = 20 * m.density.den
           /\ findContentByTextDensity(live) # m.e
           /\ last.ret # m.e

\* Witness of C5: the extractor ran stage 2 on the document holding the
\* div of 1000 characters, 200 of them in a link, and 40 descendant elements.
C5_Witness ==
  /\ Extracted
  /\ Evaluated("findContentByTextDensity")
  /\ \E e \in DensityCandidates(live) :
       /\ TrimmedTextLength(live, e) = 1000
       /\ AnchorTextLength(live, e) = 200
       /\ Cardinality(DescendantElements(live, e)) = 40
       /\ last.ret # e

-----------------------------------------------------------------------------
\* C6: an element without descendant elements has density 0 whatever its
\* text length, and the stage-2 density scan never selects it.
C6_NoDescendantsDensityZero ==
  Extracted =>
    \A s2 \in {findContentByTextDensity(live)} :
      \A e \in Elements(live) :
        DescendantElements(live, e) = {} =>
          /\ calculateTextDensity(live, e).num = 0
          /\ s2 # e
          /\ last.evaluated = <<"findContentBySelectors", "findContentByTextDensity">>
               => last.ret # e

\* Witness of C6: stage 2 ran on a document with a div that has no descendant
\* element and more text than the threshold.
C6_Witness ==
  /\ Extracted
  /\ Evaluated("findContentByTextDensity")
  /\ \E e \in DensityCandidates(live) :
       /\ DescendantElements(live, e) = {}
       /\ TrimmedTextLength(live, e) > textDensityThreshold

-----------------------------------------------------------------------------
Cleaned == last.op = "cleanContent" /\ last.ret # NULL

\* The private copy of the candidate after step 1 (noise removal) of
\* cleanContent.
AfterNoiseRemoval(content) ==
  NoiseLoop(cloneNode([live |-> live, copy |-> NoTree], content).heap.copy,
            content, noiseSelectors)

\* C7: step 2 of cleanContent leaves every element of the copy, the copy's
\* root included, with exactly those of its attributes that are in
\* {src, alt, href, title}: {src, onclick, style, class, alt} becomes
\* {src, alt}.
C7_AttributesStrippedEverywhere ==
  Cleaned =>
    \A t1 \in {AfterNoiseRemoval(last.arg)} :
      \A t2 \in {cleanAttributes(t1, last.arg)} :
        \A i \in Subtree(t2, last.arg) :
          t2[i].kind = "elem" =>
            DOMAIN t2[i].attrs = (DOMAIN t1[i].attrs) \cap {"src", "alt", "href", "title"}

-----------------------------------------------------------------------------
IsNoise(n) == \E k \in DOMAIN noiseSelectors : Matches(n, noiseSelectors[k])

RECURSIVE DepthBelow(_, _, _)
\* The number of steps from i up to its ancestor a.
DepthBelow(t, i, a) == IF i = a THEN 0 ELSE 1 + DepthBelow(t, t[i].parent, a)

\* C8 (as stated): no element of the fragment cleanContent returns, its root
\* included, matches a noise selector (on the candidate's original markup).
C8_NoNoiseAnywhere ==
  Cleaned => \A i \in Elements(last.fragment) : ~IsNoise(live[i])

\* C8 (amended): no element of the fragment cleanContent returns other than
\* its root matches a noise selector (on the candidate's original markup),
\* at any nesting depth; the root itself is never tested.
C8_NoNoiseBelowRoot ==
  Cleaned => \A i \in Elements(last.fragment) \ {last.ret} : ~IsNoise(live[i])

\* Witness of C8: the candidate held two noise elements, one of them three
\* levels down, and neither is in the fragment.
C8_Witness ==
  /\ Cleaned
  /\ \E i, j \in Descendants(live, last.arg) :
       /\ i # j
       /\ IsNoise(live[i]) /\ IsNoise(live[j])
       /\ DepthBelow(live, i, last.arg) >= 3
       /\ i \notin DOMAIN last.fragment
       /\ j \notin DOMAIN last.fragment

-----------------------------------------------------------------------------
\* C9: in the fragment cleanContent returns, an image that had neither alt
\* nor loading in the candidate has a non-empty alt and loading = lazy, and
\* no image carries a style attribute.
C9_ImagesNormalized ==
  Cleaned =>
    \A i \in Elements(last.fragment) :
      last.fragment[i].tag = "img" =>
        /\ (~HasAttr(live[i], "alt") /\ ~HasAttr(live[i], "loading")) =>
             /\ HasAttr(last.fragment[i], "alt")
             /\ last.fragment[i].attrs["alt"] # <<>>
             /\ HasAttr(last.fragment[i], "loading")
             /\ last.fragment[i].attrs["loading"] = <<"lazy">>
        /\ ~HasAttr(last.fragment[i], "style")

-----------------------------------------------------------------------------
\* C10: neither extractMainContent nor cleanContent changes the live
\* document: every step of either leaves every node of it as it was.
C10_LiveDocumentUnchanged ==
  [][(ExtractMainContent \/ CleanExtracted \/ CleanAgain) => live' = live]_vars

\* Witness of C10: cleanContent returned a fragment from which nodes of the
\* candidate were removed and attributes stripped.
C10_Witness ==
  /\ Cleaned
  /\ DOMAIN last.fragment # Subtree(live, last.arg)
  /\ \E i \in DOMAIN last.fragment : last.fragment[i].attrs # live[i].attrs

-----------------------------------------------------------------------------
\* The nodes of the fragment a cleanContent call returned.  The nodes that
\* cloneNode(true) creates are new at every call: the nodes of the copy made
\* by the n-th of two calls are named by n, those of the document by 0.
FragmentNodes(call, n) ==
  { <<call.where, IF call.where = "copy" THEN n ELSE 0, i>> : i \in DOMAIN call.fragment }

DocumentNodes == { <<"live", 0, i>> : i \in DOMAIN live }

CleanedTwice ==
  /\ last.op = "cleanContent"
  /\ prev.op = "cleanContent"
  /\ last.arg # NULL

\* C11: two calls of cleanContent on the same candidate of an unchanged
\* document return fragments with the same elements, attributes and text in
\* the same order, made of different nodes, none of them a node of the
\* document.
C11_EqualDistinctFragments ==
  CleanedTwice =>
    /\ prev.arg = last.arg
    /\ prev.fragment = last.fragment
    /\ FragmentNodes(prev, 1) \cap FragmentNodes(last, 2) = {}
    /\ (FragmentNodes(prev, 1) \cup FragmentNodes(last, 2)) \cap DocumentNodes = {}

\* Witness of C11: the second of two calls on the same candidate has
\* returned, and the fragment differs from the candidate in its nodes and in
\* their attributes.
C11_Witness ==
  /\ CleanedTwice
  /\ prev.arg = last.arg
  /\ DOMAIN last.fragment # Subtree(live, last.arg)
  /\ \E i \in DOMAIN last.fragment : last.fragment[i].attrs # live[i].attrs

-----------------------------------------------------------------------------
AllStages ==
  <<"findContentBySelectors", "findContentByTextDensity", "findLargestTextBlock">>

\* C12: extractMainContent returns null or one element of the document, for
\* every document, the empty one included; it returns null exactly when all
\* three stages were evaluated and none of them yielded an element.
C12_NullOrElementOfDocument ==
  Extracted =>
    /\ last.ret = NULL \/ last.ret \in Elements(live)
    /\ live = EmptyDoc => last.ret = NULL
    /\ last.ret = NULL <=>
         /\ last.evaluated = AllStages
         /\ \A e \in Elements(live) : ~PassesValidityFilter(live, e)

\* Witness of C12: on a document that has elements, all three stages were
\* evaluated and extractMainContent returned null.
C12_Witness ==
  /\ Extracted
  /\ Elements(live) # {}
  /\ last.evaluated = AllStages
  /\ last.ret = NULL

-----------------------------------------------------------------------------
\* C13: cleanContent(null) returns null, takes no copy and leaves the
\* document and the heap as they were.
C13_NullPassThrough ==
  (last.op = "cleanContent" /\ last.arg = NULL) =>
    /\ last.ret = NULL
    /\ last.where = "null"
    /\ last.fragment = NoTree
    /\ \A h \in {[live |-> live, copy |-> NoTree]} :
         cleanContent(h, NULL) = [heap |-> h, ret |-> NullRef]

\* Witness of C13: cleanContent was called with the null that
\* extractMainContent returned on a document that has elements.
C13_Witness ==
  /\ last.op = "cleanContent"
  /\ last.arg = NULL
  /\ prev.op = "extractMainContent"
  /\ prev.ret = NULL
  /\ Elements(live) # {}

-----------------------------------------------------------------------------
\* a = b
RatEq(a, b) == a.num * b.den = b.num * a.den

Stage2Returned ==
  /\ Extracted
  /\ last.evaluated = <<"findContentBySelectors", "findContentByTextDensity">>

\* C15: when stage 2 returns an element, every other div/section/main whose
\* density equals that of the returned element comes after it in document
\* order.
C15_FirstOfEqualScores ==
  Stage2Returned =>
    \A A \in {AboveThreshold(live)} :
      \A m, n \in A :
        (m.e = last.ret /\ n.e # m.e /\ RatEq(n.density, m.density)) => m.e < n.e

\* Witness of C15: stage 2 returned an element and a later element has the
\* same density, the maximum of the document.
C15_Witness ==
  /\ Stage2Returned
  /\ \E m, n \in AboveThreshold(live) :
       /\ m.e = last.ret
       /\ m.e < n.e
       /\ RatEq(n.density, m.density)
       /\ \A k \in AboveThreshold(live) : ~RatGt(k.density, m.density)

-----------------------------------------------------------------------------
\* C16: the density score of every element of every document is not
\* negative.
C16_DensityNonNegative ==
  Extracted =>
    \A e \in Elements(live) :
      \A d \in {calculateTextDensity(live, e)} : d.den > 0 /\ d.num >= 0

-----------------------------------------------------------------------------
\* C17: every element of the fragment cleanContent returns, its root and its
\* images included, carries only attributes named in {src, alt, href, title}.
C17_OnlyAllowedAttributes ==
  Cleaned =>
    \A i \in Elements(last.fragment) :
      DOMAIN last.fragment[i].attrs \subseteq {"src", "alt", "href", "title"}

-----------------------------------------------------------------------------
Reverse(s) == [i \in 1..Len(s) |-> s[Len(s) + 1 - i]]

Rotate(s, k) == [i \in 1..Len(s) |-> s[((i + k - 1) % Len(s)) + 1]]

\* Orders of the noise selectors: every rotation of the list and of the
\* reversed list.  Any three selectors stand in each of their six relative
\* orders in one of them.
SelectorOrders ==
  { Rotate(noiseSelectors, k) : k \in 0..(Len(noiseSelectors) - 1) }
  \cup { Rotate(Reverse(noiseSelectors), k) : k \in 0..(Len(noiseSelectors) - 1) }

\* C18: the nodes that remain in the copy after the noise removal are the
\* same whatever the order in which the noise selectors are applied.
C18_NoiseOrderIrrelevant ==
  (Cleaned /\ prev.op = "extractMainContent") =>
    \A c \in {cloneNode([live |-> live, copy |-> NoTree], last.arg).heap.copy} :
      \A R \in {Subtree(NoiseLoop(c, last.arg, noiseSelectors), last.arg)} :
        /\ R = DOMAIN last.fragment
        /\ \A p \in SelectorOrders : Subtree(NoiseLoop(c, last.arg, p), last.arg) = R

\* Witness of C18: the candidate held a noise element inside a noise element
\* of another selector, and a third noise element outside of both; none of
\* them is in the fragment.
C18_Witness ==
  /\ Cleaned
  /\ prev.op = "extractMainContent"
  /\ \E i, j, l \in Descendants(live, last.arg) :
       /\ j \in Descendants(live, i)
       /\ l \notin Subtree(live, i)
       /\ IsNoise(live[i]) /\ IsNoise(live[j]) /\ IsNoise(live[l])
       /\ \E k \in DOMAIN noiseSelectors :
            Matches(live[i], noiseSelectors[k]) /\ ~Matches(live[j], noiseSelectors[k])
       /\ {i, j, l} \cap DOMAIN last.fragment = {}

-----------------------------------------------------------------------------
\* C19: every element extractMainContent returns, whichever stage produced
\* it, passes the Validity Filter: its trimmed text length is at least 100
\* and its link ratio at most 0.5.
C19_ReturnedElementValid ==
  (Extracted /\ last.ret # NULL) =>
    /\ isValidContent(live, last.ret)
    /\ TrimmedTextLength(live, last.ret) >= 100
    /\ 2 * AnchorTextLength(live, last.ret) <= TrimmedTextLength(live, last.ret)

-----------------------------------------------------------------------------
\* C20: an image that carries a loading attribute in the candidate has the
\* same loading value in the fragment cleanContent returns, and an image
\* with a non-empty alt keeps its alt.
C20_ExplicitLoadingAndAltKept ==
  Cleaned =>
    \A i \in Elements(last.fragment) :
      last.fragment[i].tag = "img" =>
        /\ HasAttr(live[i], "loading") =>
             imgLoading(last.fragment[i]) = imgLoading(live[i])
        /\ imgAlt(live[i]) # <<>> => imgAlt(last.fragment[i]) = imgAlt(live[i])

-----------------------------------------------------------------------------
\* activate is about to run its try block on a page where extractMainContent
\* returns null.
NoCandidateFound ==
  /\ ~readingModeManager.isActive
  /\ extractMainContent(live).content = NULL

\* C14: a call of activate (directly or through toggle) on a page where
\* extractMainContent returns null dispatches
\* 'reading-assistant-reading-mode-error' and leaves the page as it was:
\* isActive stays false, there is no reading container, no child of body is
\* hidden, the inline overflow and background of body are unchanged and the
\* root element is without the class 'reading-assistant-active'.
C14_NoCandidateLeavesPageUntouched ==
  [][((Activate \/ Toggle) /\ NoCandidateFound) =>
       /\ page'.event = "reading-assistant-reading-mode-error"
       /\ readingModeManager'.isActive = FALSE
       /\ readingModeManager'.readingContainer = "null"
       /\ page'.containers = 0
       /\ page'.container = NoTree
       /\ page'.hidden = {}
       /\ page'.bodyStyle = page.bodyStyle
       /\ "reading-assistant-active" \notin page'.rootClasses]_vars

\* Witness of C14: activate has run on a page that has a body with children
\* and inline styles, extractMainContent returned null there, and the error
\* event was dispatched.
C14_Witness ==
  /\ page.event = "reading-assistant-reading-mode-error"
  /\ readingModeManager.originalContent # "null"
  /\ bodyChildren(live) # <<>>
  /\ page.bodyStyle.overflow # ""
  /\ extractMainContent(live).content = NULL

-----------------------------------------------------------------------------
ManagerConsistent ==
  /\ readingModeManager.isActive <=> page.containers >= 1
  /\ readingModeManager.isActive <=> "reading-assistant-active" \in page.rootClasses
  /\ readingModeManager.isActive <=> readingModeManager.readingContainer # "null"
  /\ page.containers <= 1

\* C27: after every call of activate, deactivate or toggle, isActive holds
\* exactly when the reading container is a child of body and exactly when the
\* root element carries 'reading-assistant-active'; there is at most one
\* reading container; activate on an active manager and deactivate on an
\* inactive one change nothing.
C27_ActiveIffContainerIffClass ==
  /\ []ManagerConsistent
  /\ [][((Activate /\ readingModeManager.isActive)
           \/ (Deactivate /\ ~readingModeManager.isActive))
          => UNCHANGED <<readingModeManager, page>>]_vars

\* Witness of C27: the manager is inactive again after a successful activate
\* and a deactivate, on a page whose body has inline styles.
C27_Witness ==
  /\ ~readingModeManager.isActive
  /\ page.event = "reading-assistant-reading-mode-deactivated"
  /\ page.containers = 0
  /\ page.bodyStyle.overflow = "hidden"

-----------------------------------------------------------------------------
(* Claims on the toggle requests of the background.                         *)

\* The tab's entry of the map.
Recorded == backgroundController.activeTabsReadingMode

C25_Passes ==
  /\ \A r \in Requests :
       /\ calls[r].i < maxRetries
       /\ calls[r].pc \notin {"send", "reply"} => calls[r].i = 0
  /\ finished.outcome = "threw" => ~finished.wrote /\ finished.error \in {0, maxRetries}
  /\ finished.outcome = "returned" /\ finished.action = "toggle-reading-mode"
       => finished.response = "success"

\* The call r, waiting for its send to settle, goes on: one call fewer is
\* where it was.
Sent(r) ==
  /\ calls[r].pc = "send"
  /\ Len(SelectSeq(calls', LAMBDA c : c = calls[r]))
       = Len(SelectSeq(calls, LAMBDA c : c = calls[r])) - 1

C25_Pass(r) ==
  /\ Sent(r) /\ Receiver
       => \E q \in Requests : calls'[q].pc = "reply" /\ calls'[q].i = calls[r].i
  /\ Sent(r) /\ ~Receiver /\ calls[r].i < maxRetries - 1
       => /\ \E q \in Requests : calls'[q].pc = "send" /\ calls'[q].i = calls[r].i + 1
          /\ UNCHANGED <<finished, backgroundController>>
  /\ Sent(r) /\ ~Receiver /\ calls[r].i = maxRetries - 1
       => /\ finished'.outcome = "threw"
          /\ finished'.error = maxRetries
          /\ Recorded' = Recorded
  /\ ReceiveResponse(r)
       => /\ finished'.outcome = "returned"
          /\ finished'.response = "success"
          /\ Len(SelectSeq(calls', LAMBDA c : c.pc # "idle"))
               = Len(SelectSeq(calls, LAMBDA c : c.pc # "idle")) - 1

\* C25: one call of sendMessageWithRetry makes at most maxRetries passes;
\* a pass whose send resolved ends the call, which returns that response; a
\* pass whose send rejected is followed by the next pass, but for the last
\* one, whose error is thrown; and a toggleReadingModeForTab that threw has
\* not written the map.
C25_BoundedRetries ==
  /\ []C25_Passes
  /\ [][\A r \in Requests : C25_Pass(r)]_vars

\* Three sends of one call rejected, and the call threw the third error.
C25_Witness ==
  /\ finished.outcome = "threw"
  /\ finished.error = maxRetries
  /\ contentScript.readingAssistantController = "constructed"

\* C22: utils/dom-utils.js and content.js are evaluated in the page at
\* most once per page load.
C22_InjectedOnce ==
  /\ contentScript.domUtils <= 1
  /\ contentScript.contentJs <= 1

\* C24: scripts of the extension run in the page, and a toggle message is
\* on its way to it or answered by it, only if the URL of the tab passes
\* isValidUrl.
C24_OnlyValidUrls ==
  (\/ contentScript.domUtils > 0
   \/ contentScript.contentJs > 0
   \/ \E r \in Requests : calls[r].pc \in {"send", "reply"})
    => isValidUrl(tab.url)

\* window.readingModeManager?.isActive || false
PageActive == contentScript.managers > 0 /\ readingModeManager.isActive

\* C21: when every toggle request has completed, the status recorded by
\* the background for the tab and the flag of the open popup equal isActive
\* of the page's manager.
C21_StatusAgrees ==
  Quiescent /\ tab.open
    => /\ getTabStatus(Recorded, tab.id).isReadingModeActive = PageActive
       /\ popup.open => popup.isReadingModeActive = PageActive

\* C28: once a successful activate has been followed by deactivate, the
\* page is as it was before the activation: no container, no hidden
\* element, the inline style of body and the class list of the root
\* element as before, and extractMainContent finds the same candidate.
C28_DeactivateRestores ==
  history.activated /\ ~readingModeManager.isActive
    => /\ page.containers = 0
       /\ page.hidden = {}
       /\ page.bodyStyle = history.page.bodyStyle
       /\ page.rootClasses = history.page.rootClasses
       /\ extractMainContent(live).content = history.candidate

-----------------------------------------------------------------------------
(* Claims on page loads, closed tabs, messages and settings.                *)

\* Whether extractMainContent finds a candidate in the page of the tab.
Extractable == extractMainContent(Pages[tab.document]).content # NULL

\* Something is on its way in the page or to it: a toggle of the
\* background, or the setup() of the controller.
Pending == ~Quiescent \/ contentScript.readingAssistantController = "constructed"

\* C23: once handleTabUpdated has set the timer of the 'auto-activate'
\* message for a page with extractable content, the manager of the page
\* eventually is active, unless something is still on its way.
C23_AutoActivates ==
  (backgroundController.autoActivate = "armed" /\ Extractable)
    ~> (readingModeManager.isActive \/ Pending)

\* The tabs that chrome.tabs.query({}) resolves with.
OpenTabs == otherTabs \cup (IF tab.open THEN {tab.id} ELSE {})

\* C30: after the tab is closed the map of the background eventually holds
\* no entry for it, for good, also if a toggle for it was on its way;
\* handleTabRemoved deletes the entry of its tab, and cleanupExpiredData
\* deletes the entries of the tabs that are not open and keeps the others.
C30_ClosedTabForgotten ==
  /\ ~tab.open ~> [](tab.id \notin DOMAIN Recorded)
  /\ [][HandleTabRemoved => tab.id \notin DOMAIN Recorded']_vars
  /\ [][CleanupExpiredData =>
          /\ DOMAIN Recorded' = DOMAIN Recorded \cap OpenTabs
          /\ \A id \in DOMAIN Recorded' : Recorded'[id] = Recorded[id]]_vars

\* The tab is closed and handleTabRemoved has run, and the interval timer
\* has deleted an entry, which was the closed tab's: the entry of the other
\* tab is still there.
C30_Witness ==
  /\ ~tab.open
  /\ ~backgroundController.onRemoved
  /\ finished.entry = "timer"
  /\ finished.wrote
  /\ DOMAIN Recorded = otherTabs

\* The payloads that are a success or a result, and the error payload.
ResultPayloads == {"success", "settings", "status"}

C26_Answered ==
  /\ finished.entry = "message" /\ finished.outcome \in {"returned", "threw"}
       => /\ Len(finished.responses) = 1
          /\ finished.responses[1] \in ResultPayloads \cup {"error"}
  /\ finished.entry = "message" /\ finished.outcome = "threw"
       => finished.responses = <<"error">>

\* The calls of toggleReadingModeForTab that handleMessage waits for.
MessageCalls(cs) == Len(SelectSeq(cs, LAMBDA c : c.entry = "message"))

\* handleMessage starts to wait for a toggle: nothing is passed to
\* sendResponse yet.
C26_Waiting ==
  MessageCalls(calls') > MessageCalls(calls)
    => /\ MessageCalls(calls') = MessageCalls(calls) + 1
       /\ finished' = finished

\* The toggle that handleMessage waited for has settled.
C26_Settled ==
  MessageCalls(calls') < MessageCalls(calls)
    => /\ MessageCalls(calls') = MessageCalls(calls) - 1
       /\ finished'.entry = "message"
       /\ finished'.action = "toggle-reading-mode"
       /\ Len(finished'.responses) = 1

\* C26: handleMessage passes exactly one payload to sendResponse for every
\* request: at once for a request it does not wait for, none while
\* toggleReadingModeForTab is on its way and one when it settles, the error
\* payload if it threw.
C26_OneResponse ==
  /\ []C26_Answered
  /\ [][C26_Waiting /\ C26_Settled]_vars

\* A toggle request whose handling threw was answered with the one error
\* payload.
C26_Witness ==
  /\ finished.entry = "message"
  /\ finished.action = "toggle-reading-mode"
  /\ finished.outcome = "threw"
  /\ finished.responses = <<"error">>

\* C29: a save made for one setting leaves every other stored setting as
\* it was: the theme button of the toolbar changes the stored theme only,
\* and a checkbox or a theme button of the popup its own setting only.
C29_SavesKeepOthers ==
  [][/\ CycleTheme => storage' = [storage EXCEPT !.theme = storage'.theme]
     /\ \A checked \in BOOLEAN :
          PopupSetAutoActivate(checked)
            => storage' = [storage EXCEPT !.autoActivate = checked]
     /\ \A checked \in BOOLEAN :
          PopupSetShowProgress(checked)
            => storage' = [storage EXCEPT !.showProgress = checked]
     /\ \A theme \in Themes :
          PopupSetTheme(theme) => storage' = [storage EXCEPT !.theme = theme]]_vars

====
